---- MODULE Spec2Model ----
(***************************************************************************)
(* The CRT overlay custom element (class CRTOverlay): its configuration    *)
(* object, the attribute binding, preset application, the style            *)
(* projection and the animation timers, as one state machine; and the two  *)
(* portal elements of the component file, the toast (class JRPGToast) and  *)
(* the tooltip (class JrpgTooltip), each as a state machine of its own     *)
(* over the same page.                                                     *)
(*                                                                         *)
(* Numbers.  Every JavaScript number of the configuration is kept as a     *)
(* fixed-point integer in thousandths (0.85 is 850, 1400 is 1400000); the  *)
(* one exception is config.mode, which the code produces with parseInt and *)
(* which is kept as a plain integer.                                       *)
(*                                                                         *)
(* Strings.  An attribute value is a DOM string or null.  It is kept as a  *)
(* record [k, n, s]: k = "num" is the decimal text of the number n,        *)
(* k = "pre" is a decimal number n followed by the non-numeric text s      *)
(* ("12abc"), k = "txt" is the text s that starts with no number, and      *)
(* k = "null" is the absent attribute.                                     *)
(***************************************************************************)
EXTENDS Integers, Sequences, FiniteSets, TLC

VARIABLES
  config,      \* this.config
  attrs,       \* the element's attributes, by name
  dom,         \* which DOM parts of the instance exist
  style,       \* everything the projection writes
  timers,      \* this.animationFrames and the pending timeouts
  trace,       \* what the last operation ran and dispatched, in order
  threw,       \* the last operation ended by an exception
  ret,         \* what the last getPreset call returned
  lastOp,      \* the last operation (API call, user event or lifecycle callback)
  nops,        \* number of mutating operations so far
  toast,       \* the <jrpg-toast> element: its fields, its timers, its listeners
  tooltip      \* the <jrpg-tooltip> element: its fields, its timers, its listeners

overlayVars == <<config, attrs, dom, style, timers, trace, threw, ret, lastOp, nops>>
vars == <<config, attrs, dom, style, timers, trace, threw, ret, lastOp, nops, toast, tooltip>>

\* Bounds of the exploration.
MaxOps == 2
MaxPending == 2
MaxTimers == 2
MaxListeners == 3

Max(a, b) == IF a >= b THEN a ELSE b
Min(a, b) == IF a <= b THEN a ELSE b

(***************************************************************************)
(* DOM strings and JavaScript values                                       *)
(***************************************************************************)
NumStr(n) == [k |-> "num", n |-> n, s |-> ""]
PreStr(n, s) == [k |-> "pre", n |-> n, s |-> s]
TxtStr(s) == [k |-> "txt", n |-> 0, s |-> s]
Null == [k |-> "null", n |-> 0, s |-> ""]

JsNum(n) == [t |-> "number", n |-> n, b |-> FALSE, s |-> ""]
JsBool(b) == [t |-> "boolean", n |-> 0, b |-> b, s |-> ""]
JsStr(s) == [t |-> "string", n |-> 0, b |-> FALSE, s |-> s]

\* String(v), the conversion setAttribute applies to a non-string argument.
String(v) ==
  CASE v.t = "number" -> NumStr(v.n)
    [] v.t = "boolean" -> TxtStr(IF v.b THEN "true" ELSE "false")
    [] OTHER -> TxtStr(v.s)

NaN == [nan |-> TRUE, v |-> 0]
Num(n) == [nan |-> FALSE, v |-> n]

\* parseFloat: the leading decimal number of the text, NaN when there is none
\* (null is converted to the text "null" first).
parseFloat(str) == IF str.k \in {"num", "pre"} THEN Num(str.n) ELSE NaN

\* parseInt(str, 10): the leading integer of the text, truncated toward zero.
parseInt(str) ==
  IF str.k \in {"num", "pre"}
    THEN Num(IF str.n >= 0 THEN str.n \div 1000 ELSE -((-str.n) \div 1000))
    ELSE NaN

\* x || d for a number x: d when x is NaN or 0.
OrElse(x, d) == IF x.nan \/ x.v = 0 THEN d ELSE x.v

(***************************************************************************)
(* Static tables of the class                                              *)
(***************************************************************************)
observedAttributes ==
  {"scan-opacity", "hairline-opacity", "fringe-opacity", "fringe-dominant", "noise-opacity",
   "barrel", "scan-size", "scan-density", "phosphor-size", "bloom", "bloom-color",
   "bloom-radius", "bloom-decay", "bloom-blur", "scanline-color", "vignette-opacity",
   "vignette-radius", "vignette-feather", "flicker-opacity", "color-palette-shift",
   "interlace-speed", "reflection-opacity", "reflection-size", "reflection-position-x",
   "reflection-position-y", "flicker", "reflection", "controls", "mode", "apply-barrel-to"}

\* The attribute-name to config-key table of attributeChangedCallback.
map ==
  ("scan-opacity" :> "scanOpacity") @@
  ("scanline-color" :> "scanlineColor") @@
  ("hairline-opacity" :> "hairlineOpacity") @@
  ("fringe-opacity" :> "fringeOpacity") @@
  ("fringe-dominant" :> "fringeDominant") @@
  ("fringe-jitter-speed" :> "fringeJitterSpeed") @@
  ("fringe-jitter-amount" :> "fringeJitterAmount") @@
  ("noise-opacity" :> "noiseOpacity") @@
  ("barrel" :> "barrel") @@
  ("scan-size" :> "scanSize") @@
  ("scan-density" :> "scanDensity") @@
  ("phosphor-size" :> "phosphorSize") @@
  ("phosphor-opacity-red" :> "phosphorOpacityRed") @@
  ("phosphor-opacity-green" :> "phosphorOpacityGreen") @@
  ("phosphor-opacity-blue" :> "phosphorOpacityBlue") @@
  ("bloom" :> "bloom") @@
  ("bloom-color" :> "bloomColor") @@
  ("bloom-radius" :> "bloomRadius") @@
  ("bloom-decay" :> "bloomDecay") @@
  ("bloom-blur" :> "bloomBlur") @@
  ("bloom-brightness" :> "bloomBrightness") @@
  ("vignette-opacity" :> "vignetteOpacity") @@
  ("vignette-radius" :> "vignetteRadius") @@
  ("vignette-feather" :> "vignetteFeather") @@
  ("vignette-color-light" :> "vignetteColorLight") @@
  ("vignette-color-dark" :> "vignetteColorDark") @@
  ("reflection-opacity" :> "reflectionOpacity") @@
  ("reflection-size" :> "reflectionSize") @@
  ("reflection-position-x" :> "reflectionPositionX") @@
  ("reflection-position-y" :> "reflectionPositionY") @@
  ("scanline-mask" :> "scanlineMask") @@
  ("flicker-opacity" :> "flickerOpacity") @@
  ("color-palette-shift" :> "colorPaletteShift") @@
  ("interlace-speed" :> "interlaceSpeed") @@
  ("flicker" :> "flicker") @@
  ("reflection" :> "reflection") @@
  ("controls" :> "controls") @@
  ("mode" :> "mode") @@
  ("apply-barrel-to" :> "applyBarrelTo")

\* The configuration object the constructor builds ("" stands for null in
\* applyBarrelTo, which is never the empty string).
ConfigInit ==
  [scanOpacity |-> 850, scanlineColor |-> 0, hairlineOpacity |-> 180, fringeOpacity |-> 250,
   fringeDominant |-> 500, fringeJitterSpeed |-> 3200, fringeJitterAmount |-> 2000,
   noiseOpacity |-> 220, barrel |-> 2000, scanSize |-> 4000, scanDensity |-> 2000,
   phosphorSize |-> 1000, phosphorOpacityRed |-> 150, phosphorOpacityGreen |-> 150,
   phosphorOpacityBlue |-> 150, scanlineMask |-> "shadow-mask", bloom |-> 150,
   bloomColor |-> "white", bloomRadius |-> 1400000, bloomDecay |-> 55000, bloomBlur |-> 10000,
   bloomBrightness |-> 1200, colorPaletteShift |-> 0, vignetteOpacity |-> 500,
   vignetteRadius |-> 85000, vignetteFeather |-> 40000, vignetteColorLight |-> 350,
   vignetteColorDark |-> 700, reflectionOpacity |-> 30, reflectionSize |-> 1400000,
   reflectionPositionX |-> 50000, reflectionPositionY |-> 10000, reflection |-> FALSE,
   flickerOpacity |-> 80, interlaceSpeed |-> 80, flicker |-> TRUE, controls |-> FALSE,
   mode |-> 1, applyBarrelTo |-> "", legacyInterlace |-> TRUE, legacyBloom |-> TRUE]

\* key.replace(/([A-Z])/g, '-$1').toLowerCase(), tabulated over the config keys.
kebab ==
  ("scanOpacity" :> "scan-opacity") @@
  ("scanlineColor" :> "scanline-color") @@
  ("hairlineOpacity" :> "hairline-opacity") @@
  ("fringeOpacity" :> "fringe-opacity") @@
  ("fringeDominant" :> "fringe-dominant") @@
  ("fringeJitterSpeed" :> "fringe-jitter-speed") @@
  ("fringeJitterAmount" :> "fringe-jitter-amount") @@
  ("noiseOpacity" :> "noise-opacity") @@
  ("barrel" :> "barrel") @@
  ("scanSize" :> "scan-size") @@
  ("scanDensity" :> "scan-density") @@
  ("phosphorSize" :> "phosphor-size") @@
  ("phosphorOpacityRed" :> "phosphor-opacity-red") @@
  ("phosphorOpacityGreen" :> "phosphor-opacity-green") @@
  ("phosphorOpacityBlue" :> "phosphor-opacity-blue") @@
  ("scanlineMask" :> "scanline-mask") @@
  ("bloom" :> "bloom") @@
  ("bloomColor" :> "bloom-color") @@
  ("bloomRadius" :> "bloom-radius") @@
  ("bloomDecay" :> "bloom-decay") @@
  ("bloomBlur" :> "bloom-blur") @@
  ("bloomBrightness" :> "bloom-brightness") @@
  ("colorPaletteShift" :> "color-palette-shift") @@
  ("vignetteOpacity" :> "vignette-opacity") @@
  ("vignetteRadius" :> "vignette-radius") @@
  ("vignetteFeather" :> "vignette-feather") @@
  ("vignetteColorLight" :> "vignette-color-light") @@
  ("vignetteColorDark" :> "vignette-color-dark") @@
  ("reflectionOpacity" :> "reflection-opacity") @@
  ("reflectionSize" :> "reflection-size") @@
  ("reflectionPositionX" :> "reflection-position-x") @@
  ("reflectionPositionY" :> "reflection-position-y") @@
  ("reflection" :> "reflection") @@
  ("flickerOpacity" :> "flicker-opacity") @@
  ("interlaceSpeed" :> "interlace-speed") @@
  ("flicker" :> "flicker") @@
  ("controls" :> "controls") @@
  ("mode" :> "mode") @@
  ("applyBarrelTo" :> "apply-barrel-to") @@
  ("legacyInterlace" :> "legacy-interlace") @@
  ("legacyBloom" :> "legacy-bloom")

BoolKeys == {"flicker", "reflection", "controls", "legacyInterlace", "legacyBloom"}
StrKeys == {"bloomColor", "scanlineMask", "applyBarrelTo"}

\* The documented range of every numeric parameter (README, Parameters).
Range ==
  ("scan-opacity" :> [lo |-> 0, hi |-> 1000]) @@
  ("scanline-color" :> [lo |-> 0, hi |-> 1000]) @@
  ("scan-size" :> [lo |-> 2000, hi |-> 8000]) @@
  ("scan-density" :> [lo |-> 1000, hi |-> 4000]) @@
  ("hairline-opacity" :> [lo |-> 0, hi |-> 300]) @@
  ("fringe-opacity" :> [lo |-> 0, hi |-> 600]) @@
  ("fringe-dominant" :> [lo |-> 0, hi |-> 1000]) @@
  ("fringe-jitter-speed" :> [lo |-> 1000, hi |-> 5000]) @@
  ("fringe-jitter-amount" :> [lo |-> 0, hi |-> 5000]) @@
  ("phosphor-size" :> [lo |-> 500, hi |-> 3000]) @@
  ("phosphor-opacity-red" :> [lo |-> 0, hi |-> 300]) @@
  ("phosphor-opacity-green" :> [lo |-> 0, hi |-> 300]) @@
  ("phosphor-opacity-blue" :> [lo |-> 0, hi |-> 300]) @@
  ("bloom" :> [lo |-> 0, hi |-> 400]) @@
  ("bloom-radius" :> [lo |-> 1200000, hi |-> 1600000]) @@
  ("bloom-decay" :> [lo |-> 40000, hi |-> 70000]) @@
  ("bloom-blur" :> [lo |-> 2000, hi |-> 40000]) @@
  ("bloom-brightness" :> [lo |-> 500, hi |-> 2000]) @@
  ("vignette-opacity" :> [lo |-> 0, hi |-> 1000]) @@
  ("vignette-radius" :> [lo |-> 30000, hi |-> 95000]) @@
  ("vignette-feather" :> [lo |-> 10000, hi |-> 80000]) @@
  ("vignette-color-light" :> [lo |-> 0, hi |-> 1000]) @@
  ("vignette-color-dark" :> [lo |-> 0, hi |-> 1000]) @@
  ("reflection-opacity" :> [lo |-> 0, hi |-> 150]) @@
  ("reflection-size" :> [lo |-> 800000, hi |-> 2000000]) @@
  ("reflection-position-x" :> [lo |-> 0, hi |-> 100000]) @@
  ("reflection-position-y" :> [lo |-> 0, hi |-> 100000]) @@
  ("color-palette-shift" :> [lo |-> -180000, hi |-> 180000]) @@
  ("flicker-opacity" :> [lo |-> 0, hi |-> 200]) @@
  ("interlace-speed" :> [lo |-> 50, hi |-> 200]) @@
  ("barrel" :> [lo |-> 0, hi |-> 6000])

\* The sliders of the panel: bindControls' table joined with the min, max, step and
\* decimals of the _controlRow calls.
controls ==
  ("ctl-scan" :> [prop |-> "scanOpacity", attr |-> "scan-opacity", min |-> 0, max |-> 1000, step |-> 20, decimals |-> 2]) @@
  ("ctl-scanline-color" :> [prop |-> "scanlineColor", attr |-> "scanline-color", min |-> 0, max |-> 1000, step |-> 50, decimals |-> 2]) @@
  ("ctl-scan-size" :> [prop |-> "scanSize", attr |-> "scan-size", min |-> 2000, max |-> 8000, step |-> 500, decimals |-> 1]) @@
  ("ctl-hairline" :> [prop |-> "hairlineOpacity", attr |-> "hairline-opacity", min |-> 0, max |-> 300, step |-> 10, decimals |-> 2]) @@
  ("ctl-scan-density" :> [prop |-> "scanDensity", attr |-> "scan-density", min |-> 1000, max |-> 4000, step |-> 100, decimals |-> 1]) @@
  ("ctl-fringe" :> [prop |-> "fringeOpacity", attr |-> "fringe-opacity", min |-> 0, max |-> 600, step |-> 20, decimals |-> 2]) @@
  ("ctl-fringe-dominant" :> [prop |-> "fringeDominant", attr |-> "fringe-dominant", min |-> 0, max |-> 1000, step |-> 50, decimals |-> 2]) @@
  ("ctl-fringe-jitter-speed" :> [prop |-> "fringeJitterSpeed", attr |-> "fringe-jitter-speed", min |-> 1000, max |-> 5000, step |-> 100, decimals |-> 1]) @@
  ("ctl-fringe-jitter-amount" :> [prop |-> "fringeJitterAmount", attr |-> "fringe-jitter-amount", min |-> 0, max |-> 5000, step |-> 500, decimals |-> 1]) @@
  ("ctl-phosphor" :> [prop |-> "phosphorSize", attr |-> "phosphor-size", min |-> 500, max |-> 3000, step |-> 100, decimals |-> 1]) @@
  ("ctl-phosphor-red" :> [prop |-> "phosphorOpacityRed", attr |-> "phosphor-opacity-red", min |-> 0, max |-> 300, step |-> 10, decimals |-> 2]) @@
  ("ctl-phosphor-green" :> [prop |-> "phosphorOpacityGreen", attr |-> "phosphor-opacity-green", min |-> 0, max |-> 300, step |-> 10, decimals |-> 2]) @@
  ("ctl-phosphor-blue" :> [prop |-> "phosphorOpacityBlue", attr |-> "phosphor-opacity-blue", min |-> 0, max |-> 300, step |-> 10, decimals |-> 2]) @@
  ("ctl-noise" :> [prop |-> "noiseOpacity", attr |-> "noise-opacity", min |-> 0, max |-> 400, step |-> 10, decimals |-> 2]) @@
  ("ctl-vignette" :> [prop |-> "vignetteOpacity", attr |-> "vignette-opacity", min |-> 0, max |-> 1000, step |-> 50, decimals |-> 2]) @@
  ("ctl-vignette-radius" :> [prop |-> "vignetteRadius", attr |-> "vignette-radius", min |-> 30000, max |-> 95000, step |-> 5000, decimals |-> 0]) @@
  ("ctl-vignette-feather" :> [prop |-> "vignetteFeather", attr |-> "vignette-feather", min |-> 10000, max |-> 80000, step |-> 5000, decimals |-> 0]) @@
  ("ctl-vignette-color-light" :> [prop |-> "vignetteColorLight", attr |-> "vignette-color-light", min |-> 0, max |-> 1000, step |-> 50, decimals |-> 2]) @@
  ("ctl-vignette-color-dark" :> [prop |-> "vignetteColorDark", attr |-> "vignette-color-dark", min |-> 0, max |-> 1000, step |-> 50, decimals |-> 2]) @@
  ("ctl-reflection-size" :> [prop |-> "reflectionSize", attr |-> "reflection-size", min |-> 800000, max |-> 2000000, step |-> 100000, decimals |-> 0]) @@
  ("ctl-reflection-opacity" :> [prop |-> "reflectionOpacity", attr |-> "reflection-opacity", min |-> 0, max |-> 150, step |-> 10, decimals |-> 3]) @@
  ("ctl-reflection-position-x" :> [prop |-> "reflectionPositionX", attr |-> "reflection-position-x", min |-> 0, max |-> 100000, step |-> 5000, decimals |-> 0]) @@
  ("ctl-reflection-position-y" :> [prop |-> "reflectionPositionY", attr |-> "reflection-position-y", min |-> 0, max |-> 100000, step |-> 5000, decimals |-> 0]) @@
  ("ctl-flicker-opacity" :> [prop |-> "flickerOpacity", attr |-> "flicker-opacity", min |-> 0, max |-> 200, step |-> 10, decimals |-> 2]) @@
  ("ctl-bloom" :> [prop |-> "bloom", attr |-> "bloom", min |-> 0, max |-> 400, step |-> 20, decimals |-> 2]) @@
  ("ctl-bloom-brightness" :> [prop |-> "bloomBrightness", attr |-> "bloom-brightness", min |-> 500, max |-> 2000, step |-> 100, decimals |-> 1]) @@
  ("ctl-bloom-radius" :> [prop |-> "bloomRadius", attr |-> "bloom-radius", min |-> 800000, max |-> 2000000, step |-> 100000, decimals |-> 0]) @@
  ("ctl-bloom-decay" :> [prop |-> "bloomDecay", attr |-> "bloom-decay", min |-> 20000, max |-> 90000, step |-> 5000, decimals |-> 0]) @@
  ("ctl-bloom-blur" :> [prop |-> "bloomBlur", attr |-> "bloom-blur", min |-> 2000, max |-> 40000, step |-> 2000, decimals |-> 0]) @@
  ("ctl-color-palette-shift" :> [prop |-> "colorPaletteShift", attr |-> "color-palette-shift", min |-> -180000, max |-> 180000, step |-> 15000, decimals |-> 0]) @@
  ("ctl-interlace-speed" :> [prop |-> "interlaceSpeed", attr |-> "interlace-speed", min |-> 50, max |-> 200, step |-> 10, decimals |-> 2]) @@
  ("ctl-barrel" :> [prop |-> "barrel", attr |-> "barrel", min |-> 0, max |-> 6000, step |-> 200, decimals |-> 1])

\* The widgets of the panel whose displayed values are followed.
PanelWidgets == {"ctl-scan", "ctl-barrel", "ctl-bloom", "ctl-fringe-jitter-speed"}

\* v rounded to the nearest multiple of q, half away from zero.
RoundTo(v, q) ==
  IF v >= 0 THEN ((2 * v + q) \div (2 * q)) * q
  ELSE -(((2 * (-v) + q) \div (2 * q)) * q)

\* value.toFixed(decimals), for 1 or 2 decimals, as the number the text shows.
toFixed(v, decimals) == RoundTo(v, IF decimals = 1 THEN 100 ELSE 10)

\* What an <input type="range"> keeps of a value assigned to it: the value clamped
\* to [min, max] and moved to the nearest step.
RangeValue(ctl, v) ==
  ctl.min + RoundTo(Max(ctl.min, Min(ctl.max, v)) - ctl.min, ctl.step)

\* The decimals the slider listener gives the number field.
SliderDecimals(attr) ==
  IF attr \in {"barrel", "scan-size", "phosphor-size", "reflection-size", "scan-density"}
    THEN 1 ELSE 2

\* What the widgets show: the value of the slider and the text of the number field.
WidgetsInit == [w \in PanelWidgets |-> [slider |-> 0, number |-> Null]]

\* The keys updateStyles writes as CSS custom properties of .crt-container.
CssKeys ==
  {"scanOpacity", "scanlineColor", "hairlineOpacity", "fringeOpacity", "fringeJitterSpeed",
   "fringeJitterAmount", "noiseOpacity", "scanSize", "scanDensity", "phosphorSize",
   "phosphorOpacityRed", "phosphorOpacityGreen", "phosphorOpacityBlue", "bloom",
   "fringeDominant", "bloomRadius", "bloomDecay", "vignetteOpacity", "vignetteRadius",
   "vignetteFeather", "vignetteColorLight", "vignetteColorDark", "reflectionOpacity",
   "reflectionSize", "reflectionPositionX", "reflectionPositionY", "colorPaletteShift",
   "interlaceSpeed", "flickerOpacity"}

\* `crt-barrel-${this._uid}`: the uid is drawn once per instance and never changes.
FilterId == "crt-barrel-uid"

(***************************************************************************)
(* The instance as one record S, and the methods as functions from S to S  *)
(***************************************************************************)
Event(S, name, v, fid) ==
  [S EXCEPT !.trace = Append(@, [e |-> name, v |-> v, fid |-> fid])]

\* switch (this.config.scanlineMask) in applyScanlineMask: the variant whose rules
\* become the text of #scanline-mask-style.
MaskVariant(m) ==
  IF m \in {"aperture-grille", "slot-mask", "sharp", "soft"} THEN m ELSE "shadow-mask"

\* A variant of applyScanlineMask that installs a fragment only when none is
\* installed yet, so the rules of the first variant stay after a switch.
applyScanlineMask_KeepFirst(S) ==
  IF ~S.dom.container \/ S.style.mask # "none" THEN S
  ELSE [S EXCEPT !.style.mask = MaskVariant(S.config.scanlineMask)]

\* The content of the one <style id="scanline-mask-style"> element is replaced
\* by the rules of the variant the switch selects.
applyScanlineMask(S) ==
  IF ~S.dom.container THEN S
  ELSE [S EXCEPT !.style.mask = MaskVariant(S.config.scanlineMask)]

updateModeZIndex(S) ==
  IF S.config.mode = 0
    THEN [S EXCEPT !.style.visibility = "hidden",
                   !.style.bloomVisibility = IF S.dom.bloomLayer THEN "hidden" ELSE @]
    ELSE LET zIndex == IF S.config.mode = 2 THEN "9999" ELSE "-1"
         IN [S EXCEPT !.style.visibility = "visible",
                      !.style.zIndex = zIndex,
                      !.style.bloomVisibility = IF S.dom.bloomLayer THEN "visible" ELSE @,
                      !.style.bloomZIndex = IF S.dom.bloomLayer THEN zIndex ELSE @]

\* The bloom filter without the dead zone below 0.05.
BloomFilter_NoDeadZone(c) ==
  [f |-> "blur", blur |-> Min(c.bloomBlur * Max(150, c.bloom), 1500000),
   bright |-> 10000000 + c.bloom * c.bloomBrightness * 4]

\* The backdrop-filter of the external bloom layer: blur in millionths of a px,
\* brightness in ten-millionths.
BloomFilter(c) ==
  IF c.bloom < 50
    THEN [f |-> "none", blur |-> 0, bright |-> 0]
    ELSE [f |-> "blur", blur |-> Min(c.bloomBlur * Max(150, c.bloom), 1500000),
          bright |-> 10000000 + c.bloom * c.bloomBrightness * 4]

updateExternalBloomLayer(S) ==
  IF ~S.dom.bloomLayer THEN S
  ELSE [updateModeZIndex(S) EXCEPT !.style.bloomFilter = BloomFilter(S.config)]

\* The barrel part of the filter chain: the argument when one is passed, else
\* computed from barrel and mode.  "" stands for a missing argument.
BarrelValue(c, barrelFilterValue) ==
  IF barrelFilterValue # "" THEN barrelFilterValue
  ELSE IF c.barrel > 0 /\ c.mode > 0 THEN "url" ELSE "none"

\* The selector the injected rule applies the chain to; "" stands for no target.
FilterTarget(c) ==
  IF c.mode = 1 THEN (IF c.applyBarrelTo # "" THEN c.applyBarrelTo ELSE ".bg-image")
  ELSE IF c.mode = 2 THEN (IF c.applyBarrelTo # "" THEN c.applyBarrelTo ELSE "> *:not(crt-overlay):not(.crt-controls-portal):not(.crt-external-bloom)")
  ELSE ""

\* The filter chain with the hue-rotate filter put before the barrel reference.
FilterChain_HueFirst(c, barrel) ==
  LET b == [f |-> barrel, v |-> 0]
      hue == [f |-> "hue-rotate", v |-> c.colorPaletteShift]
  IN IF c.colorPaletteShift # 0
       THEN (IF barrel = "none" THEN <<hue>> ELSE <<hue, b>>)
       ELSE <<b>>

\* The value of --crt-filter-chain-<uid>, as the sequence of its space-separated filters.
FilterChain(c, barrel) ==
  LET b == [f |-> barrel, v |-> 0]
      hue == [f |-> "hue-rotate", v |-> c.colorPaletteShift]
  IN IF c.colorPaletteShift # 0
       THEN (IF barrel = "none" THEN <<hue>> ELSE <<b, hue>>)
       ELSE <<b>>

PageFiltered(c) == (c.barrel > 0 \/ c.colorPaletteShift # 0) /\ c.mode > 0

applyGlobalFilters(S, barrelFilterValue) ==
  LET c == S.config
      barrel == BarrelValue(c, barrelFilterValue)
  IN [S EXCEPT !.style.filterVar = FilterChain(c, barrel),
               !.style.globalCss = IF S.dom.globalStyle THEN FilterTarget(c) ELSE @,
               !.style.bodyClass = PageFiltered(c)]

updateStyles(S) ==
  IF ~S.dom.container THEN S
  ELSE LET S0 == [S EXCEPT !.trace = Append(@, [e |-> "updateStyles", v |-> 0, fid |-> "",
                                                seen |-> S.config]),
                           !.style.css = [k \in CssKeys |-> S.config[k]],
                           !.style.cssSet = TRUE]
           S1 == applyScanlineMask(S0)
           S2 == updateModeZIndex(S1)
           S3 == updateExternalBloomLayer(S2)
           S4 == applyGlobalFilters(S3, "")
       IN Event(S4, "bloom-change", S4.config.bloom, "")

\* updateBarrel without its dispatchEvent.
updateBarrel_Silent(S) ==
  LET c == S.config
      S0 == IF S.dom.svg
              THEN [S EXCEPT !.style.dispScale = c.barrel,
                             !.style.turbFreq = Max(360000, 350 * c.barrel)]
              ELSE S
      S1 == IF S0.dom.container THEN [S0 EXCEPT !.style.containerFilter = "none"] ELSE S0
  IN applyGlobalFilters(S1, IF c.barrel > 0 /\ c.mode > 0 THEN "url" ELSE "none")

updateBarrel(S) ==
  LET c == S.config
      S0 == IF S.dom.svg
              THEN [S EXCEPT !.style.dispScale = c.barrel,
                             !.style.turbFreq = Max(360000, 350 * c.barrel)]
              ELSE S
      filterValue == IF c.barrel > 0 /\ c.mode > 0 THEN "url" ELSE "none"
      S1 == IF S0.dom.container THEN [S0 EXCEPT !.style.containerFilter = "none"] ELSE S0
      S2 == applyGlobalFilters(S1, filterValue)
  IN Event(S2, "barrel-change", c.barrel, FilterId)

\* setTimeout: the new timer gets the smallest id no pending timer has.  A handle
\* whose timer fired or was cleared is kept as Stale: non-null, naming no timer.
Stale == -1
NewId(pending) == CHOOSE i \in 1..(Cardinality(pending) + 1) : i \notin pending

\* clearTimeout(h)
Clear(pending, h) == pending \ {h}

animateFlicker(S) ==
  IF ~S.config.flicker THEN S
  ELSE LET id == NewId(S.timers.pendingFlicker)
       IN [S EXCEPT !.timers.pendingFlicker = @ \cup {id},
                    !.timers.flicker = id]

animateNoise(S) ==
  IF ~S.dom.container \/ ~S.dom.noisePool THEN S
  ELSE LET id == NewId(S.timers.pendingNoise)
       IN [S EXCEPT !.timers.pendingNoise = @ \cup {id},
                    !.timers.noise = id,
                    !.style.noiseImage = TRUE]

toggleFlicker(S) ==
  LET S0 == IF S.timers.flicker # 0
              THEN [S EXCEPT !.timers.pendingFlicker = Clear(@, S.timers.flicker),
                             !.timers.flicker = 0]
              ELSE S
  IN IF S0.config.flicker THEN animateFlicker(S0) ELSE S0

toggleReflection(S) ==
  IF ~S.dom.container THEN S
  ELSE [S EXCEPT !.style.reflectionDisplay = IF S.config.reflection THEN "block" ELSE "none"]

toggleControls(S) ==
  IF ~S.dom.portal THEN S
  ELSE [S EXCEPT !.style.portalDisplay = IF S.config.controls THEN "block" ELSE "none"]

startAnimations(S) ==
  LET S0 == animateNoise(S)
  IN IF S0.config.flicker THEN animateFlicker(S0) ELSE S0

stopAnimations(S) ==
  LET t == S.timers
  IN [S EXCEPT !.timers.pendingNoise = IF t.noise # 0 THEN Clear(@, t.noise) ELSE @,
               !.timers.noise = IF t.noise > 0 THEN Stale ELSE @,
               !.timers.pendingFlicker = IF t.flicker # 0 THEN Clear(@, t.flicker) ELSE @,
               !.timers.flicker = IF t.flicker > 0 THEN Stale ELSE @]

(***************************************************************************)
(* Attribute binding                                                       *)
(***************************************************************************)
\* parseInt(newValue, 10) || 1
ParseMode(newValue) == OrElse(parseInt(newValue), 1)

\* numeric || 0 in place of the NaN test: a text that is no number stores 0.
ParseNumeric_ZeroOnNaN(cur, newValue) ==
  LET numeric == parseFloat(newValue) IN IF numeric.nan THEN 0 ELSE numeric.v

\* Number.isNaN(numeric) ? this.config[key] : numeric
ParseNumeric(cur, newValue) ==
  LET numeric == parseFloat(newValue) IN IF numeric.nan THEN cur ELSE numeric.v

\* newValue || dflt, for a DOM string or null
StrOr(newValue, dflt) ==
  IF newValue.k = "null" THEN dflt
  ELSE IF newValue.k = "txt" THEN (IF newValue.s = "" THEN dflt ELSE newValue.s)
  ELSE newValue.s   \* numeric text: not among the inputs of the string attributes

\* The value attributeChangedCallback stores for the attribute.
Parsed(c, name, newValue) ==
  CASE name \in {"flicker", "controls", "reflection"} -> newValue # Null
    [] name = "apply-barrel-to" -> StrOr(newValue, "")
    [] name = "mode" -> ParseMode(newValue)
    [] name = "bloom-color" -> StrOr(newValue, "white")
    [] OTHER -> ParseNumeric(c[map[name]], newValue)

\* The calls that follow updateStyles in attributeChangedCallback, in order.
AttrFollowUp(S, name) ==
  CASE name = "barrel" -> updateBarrel(S)
    [] name = "color-palette-shift" -> applyGlobalFilters(S, "")
    [] name = "flicker" -> toggleFlicker(S)
    [] name = "reflection" -> toggleReflection(S)
    [] name = "controls" -> toggleControls(S)
    [] name = "mode" -> updateModeZIndex(S)
    [] name = "apply-barrel-to" -> applyGlobalFilters(S, "")
    [] OTHER -> S

attributeChangedCallback(S, name, oldValue, newValue) ==
  IF oldValue = newValue THEN S
  ELSE IF name \notin DOMAIN map THEN S
  ELSE LET S0 == [S EXCEPT !.config[map[name]] = Parsed(S.config, name, newValue)]
       IN IF S0.dom.container THEN AttrFollowUp(updateStyles(S0), name) ELSE S0

\* Element.setAttribute(name, value): the attribute is stored, and the callback of
\* an observed attribute runs before the call returns.
setAttribute(S, name, value) ==
  LET old == S.attrs[name]
      S0 == [S EXCEPT !.attrs[name] = value]
  IN IF name \in observedAttributes
       THEN attributeChangedCallback(S0, name, old, value)
       ELSE S0

\* Element.removeAttribute(name): nothing happens when the attribute is absent.
removeAttribute(S, name) ==
  IF S.attrs[name] = Null THEN S ELSE setAttribute(S, name, Null)

(***************************************************************************)
(* Presets                                                                 *)
(***************************************************************************)
PresetKeyOrder ==
  <<"scanOpacity", "scanlineColor", "hairlineOpacity", "fringeOpacity",
    "fringeDominant", "fringeJitterSpeed", "fringeJitterAmount", "noiseOpacity",
    "barrel", "scanSize", "scanDensity", "phosphorSize",
    "phosphorOpacityRed", "phosphorOpacityGreen", "phosphorOpacityBlue", "bloom",
    "bloomColor", "bloomRadius", "bloomDecay", "bloomBlur",
    "bloomBrightness", "vignetteOpacity", "vignetteRadius", "vignetteFeather",
    "vignetteColorLight", "vignetteColorDark", "reflectionOpacity", "reflectionSize",
    "reflectionPositionX", "reflectionPositionY", "reflection", "scanlineMask",
    "flickerOpacity", "flicker", "colorPaletteShift", "interlaceSpeed">>

\* The preset table of getPreset.
presets ==
  ("default" :>
     [scanOpacity |-> 850, scanlineColor |-> 0, hairlineOpacity |-> 180, fringeOpacity |-> 250, 
      fringeDominant |-> 500, fringeJitterSpeed |-> 3200, fringeJitterAmount |-> 2000, 
      noiseOpacity |-> 220, barrel |-> 2000, scanSize |-> 4000, scanDensity |-> 2000, 
      phosphorSize |-> 1000, phosphorOpacityRed |-> 150, phosphorOpacityGreen |-> 150, 
      phosphorOpacityBlue |-> 150, bloom |-> 150, bloomColor |-> "white", 
      bloomRadius |-> 1400000, bloomDecay |-> 55000, bloomBlur |-> 10000, 
      bloomBrightness |-> 1200, vignetteOpacity |-> 500, vignetteRadius |-> 85000, 
      vignetteFeather |-> 40000, vignetteColorLight |-> 350, vignetteColorDark |-> 700, 
      reflectionOpacity |-> 30, reflectionSize |-> 1400000, reflectionPositionX |-> 50000, 
      reflectionPositionY |-> 10000, reflection |-> FALSE, scanlineMask |-> "shadow-mask", 
      flickerOpacity |-> 80, flicker |-> TRUE, colorPaletteShift |-> 0, interlaceSpeed |-> 80]) @@
  ("trinitron-fd" :>
     [scanOpacity |-> 720, scanlineColor |-> 80, hairlineOpacity |-> 160, 
      fringeOpacity |-> 120, fringeDominant |-> 400, fringeJitterSpeed |-> 2800, 
      fringeJitterAmount |-> 1500, noiseOpacity |-> 100, barrel |-> 1800, scanSize |-> 3500, 
      scanDensity |-> 2200, phosphorSize |-> 900, phosphorOpacityRed |-> 140, 
      phosphorOpacityGreen |-> 150, phosphorOpacityBlue |-> 130, bloom |-> 240, 
      bloomColor |-> "white", bloomRadius |-> 1350000, bloomDecay |-> 50000, 
      bloomBlur |-> 9000, bloomBrightness |-> 1300, vignetteOpacity |-> 880, 
      vignetteRadius |-> 82000, vignetteFeather |-> 35000, vignetteColorLight |-> 300, 
      vignetteColorDark |-> 650, reflectionOpacity |-> 25, reflectionSize |-> 1350000, 
      reflectionPositionX |-> 50000, reflectionPositionY |-> 10000, reflection |-> FALSE, 
      scanlineMask |-> "aperture-grille", flickerOpacity |-> 50, flicker |-> TRUE, 
      colorPaletteShift |-> 0, interlaceSpeed |-> 80]) @@
  ("professional-monitor" :>
     [scanOpacity |-> 920, scanlineColor |-> 20, hairlineOpacity |-> 140, 
      fringeOpacity |-> 180, fringeDominant |-> 600, fringeJitterSpeed |-> 3500, 
      fringeJitterAmount |-> 2500, noiseOpacity |-> 320, barrel |-> 2600, scanSize |-> 4500, 
      scanDensity |-> 1800, phosphorSize |-> 1100, phosphorOpacityRed |-> 160, 
      phosphorOpacityGreen |-> 140, phosphorOpacityBlue |-> 150, bloom |-> 90, 
      bloomColor |-> "white", bloomRadius |-> 1300000, bloomDecay |-> 60000, 
      bloomBlur |-> 8000, bloomBrightness |-> 1000, vignetteOpacity |-> 940, 
      vignetteRadius |-> 88000, vignetteFeather |-> 38000, vignetteColorLight |-> 400, 
      vignetteColorDark |-> 750, reflectionOpacity |-> 35, reflectionSize |-> 1300000, 
      reflectionPositionX |-> 50000, reflectionPositionY |-> 10000, reflection |-> FALSE, 
      scanlineMask |-> "shadow-mask", flickerOpacity |-> 120, flicker |-> TRUE, 
      colorPaletteShift |-> 0, interlaceSpeed |-> 80]) @@
  ("monitor-1084s" :>
     [scanOpacity |-> 880, scanlineColor |-> 60, hairlineOpacity |-> 210, 
      fringeOpacity |-> 320, fringeDominant |-> 650, fringeJitterSpeed |-> 3800, 
      fringeJitterAmount |-> 3000, noiseOpacity |-> 350, barrel |-> 3400, scanSize |-> 6000, 
      scanDensity |-> 1600, phosphorSize |-> 1400, phosphorOpacityRed |-> 180, 
      phosphorOpacityGreen |-> 150, phosphorOpacityBlue |-> 120, bloom |-> 200, 
      bloomColor |-> "amber", bloomRadius |-> 1450000, bloomDecay |-> 52000, 
      bloomBlur |-> 12000, bloomBrightness |-> 1400, vignetteOpacity |-> 870, 
      vignetteRadius |-> 84000, vignetteFeather |-> 42000, vignetteColorLight |-> 320, 
      vignetteColorDark |-> 680, reflectionOpacity |-> 40, reflectionSize |-> 1450000, 
      reflectionPositionX |-> 50000, reflectionPositionY |-> 10000, reflection |-> FALSE, 
      scanlineMask |-> "shadow-mask", flickerOpacity |-> 130, flicker |-> TRUE, 
      colorPaletteShift |-> 15000, interlaceSpeed |-> 80]) @@
  ("studio-display-crt" :>
     [scanOpacity |-> 650, scanlineColor |-> 180, hairlineOpacity |-> 250, 
      fringeOpacity |-> 100, fringeDominant |-> 350, fringeJitterSpeed |-> 2500, 
      fringeJitterAmount |-> 1000, noiseOpacity |-> 60, barrel |-> 1100, scanSize |-> 2800, 
      scanDensity |-> 2800, phosphorSize |-> 650, phosphorOpacityRed |-> 130, 
      phosphorOpacityGreen |-> 150, phosphorOpacityBlue |-> 140, bloom |-> 320, 
      bloomColor |-> "white", bloomRadius |-> 1250000, bloomDecay |-> 65000, 
      bloomBlur |-> 14000, bloomBrightness |-> 1500, vignetteOpacity |-> 820, 
      vignetteRadius |-> 80000, vignetteFeather |-> 32000, vignetteColorLight |-> 250, 
      vignetteColorDark |-> 550, reflectionOpacity |-> 20, reflectionSize |-> 1250000, 
      reflectionPositionX |-> 50000, reflectionPositionY |-> 10000, reflection |-> FALSE, 
      scanlineMask |-> "sharp", flickerOpacity |-> 30, flicker |-> FALSE, 
      colorPaletteShift |-> -5000, interlaceSpeed |-> 120]) @@
  ("arcade-crt" :>
     [scanOpacity |-> 950, scanlineColor |-> 0, hairlineOpacity |-> 130, fringeOpacity |-> 380, 
      fringeDominant |-> 700, fringeJitterSpeed |-> 4200, fringeJitterAmount |-> 3500, 
      noiseOpacity |-> 420, barrel |-> 4800, scanSize |-> 7500, scanDensity |-> 1300, 
      phosphorSize |-> 1800, phosphorOpacityRed |-> 160, phosphorOpacityGreen |-> 150, 
      phosphorOpacityBlue |-> 140, bloom |-> 320, bloomColor |-> "white", 
      bloomRadius |-> 1500000, bloomDecay |-> 48000, bloomBlur |-> 11000, 
      bloomBrightness |-> 1100, vignetteOpacity |-> 930, vignetteRadius |-> 87000, 
      vignetteFeather |-> 40000, vignetteColorLight |-> 380, vignetteColorDark |-> 720, 
      reflectionOpacity |-> 45, reflectionSize |-> 1500000, reflectionPositionX |-> 50000, 
      reflectionPositionY |-> 10000, reflection |-> FALSE, scanlineMask |-> "soft", 
      flickerOpacity |-> 160, flicker |-> TRUE, colorPaletteShift |-> 0, interlaceSpeed |-> 80]) @@
  ("amber-phosphor" :>
     [scanOpacity |-> 780, scanlineColor |-> 220, hairlineOpacity |-> 200, 
      fringeOpacity |-> 80, fringeDominant |-> 500, fringeJitterSpeed |-> 3000, 
      fringeJitterAmount |-> 1500, noiseOpacity |-> 180, barrel |-> 2100, scanSize |-> 4000, 
      scanDensity |-> 2000, phosphorSize |-> 950, phosphorOpacityRed |-> 180, 
      phosphorOpacityGreen |-> 120, phosphorOpacityBlue |-> 80, bloom |-> 220, 
      bloomColor |-> "amber", bloomRadius |-> 1400000, bloomDecay |-> 54000, 
      bloomBlur |-> 11000, bloomBrightness |-> 1300, vignetteOpacity |-> 860, 
      vignetteRadius |-> 84000, vignetteFeather |-> 39000, vignetteColorLight |-> 330, 
      vignetteColorDark |-> 660, reflectionOpacity |-> 28, reflectionSize |-> 1400000, 
      reflectionPositionX |-> 50000, reflectionPositionY |-> 10000, reflection |-> FALSE, 
      scanlineMask |-> "shadow-mask", flickerOpacity |-> 90, flicker |-> TRUE, 
      colorPaletteShift |-> 25000, interlaceSpeed |-> 80]) @@
  ("green-phosphor" :>
     [scanOpacity |-> 800, scanlineColor |-> 180, hairlineOpacity |-> 220, 
      fringeOpacity |-> 80, fringeDominant |-> 500, fringeJitterSpeed |-> 3000, 
      fringeJitterAmount |-> 1500, noiseOpacity |-> 200, barrel |-> 2200, scanSize |-> 4000, 
      scanDensity |-> 2000, phosphorSize |-> 950, phosphorOpacityRed |-> 80, 
      phosphorOpacityGreen |-> 180, phosphorOpacityBlue |-> 80, bloom |-> 200, 
      bloomColor |-> "green", bloomRadius |-> 1380000, bloomDecay |-> 56000, 
      bloomBlur |-> 10000, bloomBrightness |-> 1200, vignetteOpacity |-> 880, 
      vignetteRadius |-> 85000, vignetteFeather |-> 40000, vignetteColorLight |-> 340, 
      vignetteColorDark |-> 690, reflectionOpacity |-> 30, reflectionSize |-> 1380000, 
      reflectionPositionX |-> 50000, reflectionPositionY |-> 10000, reflection |-> FALSE, 
      scanlineMask |-> "shadow-mask", flickerOpacity |-> 80, flicker |-> TRUE, 
      colorPaletteShift |-> 120000, interlaceSpeed |-> 80]) @@
  ("blue-phosphor" :>
     [scanOpacity |-> 760, scanlineColor |-> 120, hairlineOpacity |-> 190, 
      fringeOpacity |-> 100, fringeDominant |-> 450, fringeJitterSpeed |-> 2800, 
      fringeJitterAmount |-> 1500, noiseOpacity |-> 160, barrel |-> 1900, scanSize |-> 4000, 
      scanDensity |-> 2100, phosphorSize |-> 900, phosphorOpacityRed |-> 80, 
      phosphorOpacityGreen |-> 80, phosphorOpacityBlue |-> 180, bloom |-> 240, 
      bloomColor |-> "blue", bloomRadius |-> 1420000, bloomDecay |-> 53000, 
      bloomBlur |-> 11000, bloomBrightness |-> 1350, vignetteOpacity |-> 890, 
      vignetteRadius |-> 86000, vignetteFeather |-> 41000, vignetteColorLight |-> 360, 
      vignetteColorDark |-> 710, reflectionOpacity |-> 32, reflectionSize |-> 1420000, 
      reflectionPositionX |-> 50000, reflectionPositionY |-> 10000, reflection |-> FALSE, 
      scanlineMask |-> "shadow-mask", flickerOpacity |-> 70, flicker |-> TRUE, 
      colorPaletteShift |-> -40000, interlaceSpeed |-> 80]) @@
  ("vt220-terminal" :>
     [scanOpacity |-> 820, scanlineColor |-> 150, hairlineOpacity |-> 240, 
      fringeOpacity |-> 50, fringeDominant |-> 500, fringeJitterSpeed |-> 2500, 
      fringeJitterAmount |-> 1000, noiseOpacity |-> 120, barrel |-> 800, scanSize |-> 3200, 
      scanDensity |-> 2500, phosphorSize |-> 800, phosphorOpacityRed |-> 50, 
      phosphorOpacityGreen |-> 180, phosphorOpacityBlue |-> 50, bloom |-> 150, 
      bloomColor |-> "green", bloomRadius |-> 1300000, bloomDecay |-> 58000, 
      bloomBlur |-> 9000, bloomBrightness |-> 1100, vignetteOpacity |-> 850, 
      vignetteRadius |-> 83000, vignetteFeather |-> 36000, vignetteColorLight |-> 280, 
      vignetteColorDark |-> 600, reflectionOpacity |-> 20, reflectionSize |-> 1300000, 
      reflectionPositionX |-> 50000, reflectionPositionY |-> 10000, reflection |-> FALSE, 
      scanlineMask |-> "sharp", flickerOpacity |-> 60, flicker |-> FALSE, 
      colorPaletteShift |-> 120000, interlaceSpeed |-> 120]) @@
  ("lcd-handheld" :>
     [scanOpacity |-> 500, scanlineColor |-> 400, hairlineOpacity |-> 350, 
      fringeOpacity |-> 20, fringeDominant |-> 500, fringeJitterSpeed |-> 4500, 
      fringeJitterAmount |-> 4000, noiseOpacity |-> 480, barrel |-> 3600, scanSize |-> 2000, 
      scanDensity |-> 1000, phosphorSize |-> 600, phosphorOpacityRed |-> 60, 
      phosphorOpacityGreen |-> 160, phosphorOpacityBlue |-> 60, bloom |-> 60, 
      bloomColor |-> "green", bloomRadius |-> 1200000, bloomDecay |-> 62000, 
      bloomBlur |-> 8000, bloomBrightness |-> 800, vignetteOpacity |-> 910, 
      vignetteRadius |-> 81000, vignetteFeather |-> 44000, vignetteColorLight |-> 420, 
      vignetteColorDark |-> 780, reflectionOpacity |-> 50, reflectionSize |-> 1200000, 
      reflectionPositionX |-> 50000, reflectionPositionY |-> 10000, reflection |-> FALSE, 
      scanlineMask |-> "soft", flickerOpacity |-> 200, flicker |-> TRUE, 
      colorPaletteShift |-> 140000, interlaceSpeed |-> 120]) @@
  ("classic-rgb" :>
     [scanOpacity |-> 790, scanlineColor |-> 110, hairlineOpacity |-> 190, 
      fringeOpacity |-> 280, fringeDominant |-> 550, fringeJitterSpeed |-> 3300, 
      fringeJitterAmount |-> 2000, noiseOpacity |-> 190, barrel |-> 1500, scanSize |-> 3800, 
      scanDensity |-> 2300, phosphorSize |-> 1050, phosphorOpacityRed |-> 150, 
      phosphorOpacityGreen |-> 150, phosphorOpacityBlue |-> 150, bloom |-> 180, 
      bloomColor |-> "white", bloomRadius |-> 1380000, bloomDecay |-> 55000, 
      bloomBlur |-> 10000, bloomBrightness |-> 1200, vignetteOpacity |-> 860, 
      vignetteRadius |-> 84000, vignetteFeather |-> 38000, vignetteColorLight |-> 320, 
      vignetteColorDark |-> 670, reflectionOpacity |-> 30, reflectionSize |-> 1380000, 
      reflectionPositionX |-> 50000, reflectionPositionY |-> 10000, reflection |-> FALSE, 
      scanlineMask |-> "shadow-mask", flickerOpacity |-> 100, flicker |-> TRUE, 
      colorPaletteShift |-> 10000, interlaceSpeed |-> 80]) @@
  ("precision-flatcrt" :>
     [scanOpacity |-> 680, scanlineColor |-> 160, hairlineOpacity |-> 220, 
      fringeOpacity |-> 130, fringeDominant |-> 300, fringeJitterSpeed |-> 2600, 
      fringeJitterAmount |-> 1200, noiseOpacity |-> 80, barrel |-> 1300, scanSize |-> 3000, 
      scanDensity |-> 2600, phosphorSize |-> 800, phosphorOpacityRed |-> 120, 
      phosphorOpacityGreen |-> 130, phosphorOpacityBlue |-> 120, bloom |-> 280, 
      bloomColor |-> "white", bloomRadius |-> 1320000, bloomDecay |-> 60000, 
      bloomBlur |-> 13000, bloomBrightness |-> 1400, vignetteOpacity |-> 830, 
      vignetteRadius |-> 79000, vignetteFeather |-> 30000, vignetteColorLight |-> 220, 
      vignetteColorDark |-> 500, reflectionOpacity |-> 15, reflectionSize |-> 1320000, 
      reflectionPositionX |-> 50000, reflectionPositionY |-> 10000, reflection |-> FALSE, 
      scanlineMask |-> "sharp", flickerOpacity |-> 40, flicker |-> FALSE, 
      colorPaletteShift |-> -10000, interlaceSpeed |-> 120]) @@
  ("retro-studio" :>
     [scanOpacity |-> 840, scanlineColor |-> 40, hairlineOpacity |-> 170, 
      fringeOpacity |-> 220, fringeDominant |-> 520, fringeJitterSpeed |-> 3200, 
      fringeJitterAmount |-> 2000, noiseOpacity |-> 240, barrel |-> 2400, scanSize |-> 4200, 
      scanDensity |-> 2000, phosphorSize |-> 1080, phosphorOpacityRed |-> 150, 
      phosphorOpacityGreen |-> 150, phosphorOpacityBlue |-> 150, bloom |-> 200, 
      bloomColor |-> "white", bloomRadius |-> 1400000, bloomDecay |-> 54000, 
      bloomBlur |-> 10000, bloomBrightness |-> 1250, vignetteOpacity |-> 890, 
      vignetteRadius |-> 86000, vignetteFeather |-> 41000, vignetteColorLight |-> 350, 
      vignetteColorDark |-> 700, reflectionOpacity |-> 32, reflectionSize |-> 1400000, 
      reflectionPositionX |-> 50000, reflectionPositionY |-> 10000, reflection |-> FALSE, 
      scanlineMask |-> "shadow-mask", flickerOpacity |-> 110, flicker |-> TRUE, 
      colorPaletteShift |-> 5000, interlaceSpeed |-> 80]) @@
  ("broadcast-monitor" :>
     [scanOpacity |-> 700, scanlineColor |-> 120, hairlineOpacity |-> 200, 
      fringeOpacity |-> 80, fringeDominant |-> 450, fringeJitterSpeed |-> 2700, 
      fringeJitterAmount |-> 1000, noiseOpacity |-> 80, barrel |-> 1200, scanSize |-> 3000, 
      scanDensity |-> 2500, phosphorSize |-> 850, phosphorOpacityRed |-> 140, 
      phosphorOpacityGreen |-> 150, phosphorOpacityBlue |-> 140, bloom |-> 260, 
      bloomColor |-> "white", bloomRadius |-> 1280000, bloomDecay |-> 58000, 
      bloomBlur |-> 12000, bloomBrightness |-> 1350, vignetteOpacity |-> 840, 
      vignetteRadius |-> 81000, vignetteFeather |-> 34000, vignetteColorLight |-> 260, 
      vignetteColorDark |-> 580, reflectionOpacity |-> 22, reflectionSize |-> 1280000, 
      reflectionPositionX |-> 50000, reflectionPositionY |-> 10000, reflection |-> FALSE, 
      scanlineMask |-> "sharp", flickerOpacity |-> 40, flicker |-> FALSE, 
      colorPaletteShift |-> -3000, interlaceSpeed |-> 120]) @@
  ("rgb-professional" :>
     [scanOpacity |-> 680, scanlineColor |-> 150, hairlineOpacity |-> 180, 
      fringeOpacity |-> 60, fringeDominant |-> 380, fringeJitterSpeed |-> 2500, 
      fringeJitterAmount |-> 800, noiseOpacity |-> 50, barrel |-> 900, scanSize |-> 2800, 
      scanDensity |-> 2700, phosphorSize |-> 750, phosphorOpacityRed |-> 130, 
      phosphorOpacityGreen |-> 150, phosphorOpacityBlue |-> 130, bloom |-> 300, 
      bloomColor |-> "white", bloomRadius |-> 1220000, bloomDecay |-> 62000, 
      bloomBlur |-> 13000, bloomBrightness |-> 1400, vignetteOpacity |-> 810, 
      vignetteRadius |-> 78000, vignetteFeather |-> 30000, vignetteColorLight |-> 230, 
      vignetteColorDark |-> 520, reflectionOpacity |-> 18, reflectionSize |-> 1220000, 
      reflectionPositionX |-> 50000, reflectionPositionY |-> 10000, reflection |-> FALSE, 
      scanlineMask |-> "aperture-grille", flickerOpacity |-> 30, flicker |-> FALSE, 
      colorPaletteShift |-> -8000, interlaceSpeed |-> 120]) @@
  ("phosphor-white" :>
     [scanOpacity |-> 750, scanlineColor |-> 200, hairlineOpacity |-> 230, 
      fringeOpacity |-> 50, fringeDominant |-> 500, fringeJitterSpeed |-> 2800, 
      fringeJitterAmount |-> 1200, noiseOpacity |-> 140, barrel |-> 1800, scanSize |-> 3800, 
      scanDensity |-> 2200, phosphorSize |-> 900, phosphorOpacityRed |-> 160, 
      phosphorOpacityGreen |-> 160, phosphorOpacityBlue |-> 160, bloom |-> 180, 
      bloomColor |-> "white", bloomRadius |-> 1350000, bloomDecay |-> 56000, 
      bloomBlur |-> 10000, bloomBrightness |-> 1250, vignetteOpacity |-> 870, 
      vignetteRadius |-> 83000, vignetteFeather |-> 37000, vignetteColorLight |-> 310, 
      vignetteColorDark |-> 640, reflectionOpacity |-> 26, reflectionSize |-> 1350000, 
      reflectionPositionX |-> 50000, reflectionPositionY |-> 10000, reflection |-> FALSE, 
      scanlineMask |-> "sharp", flickerOpacity |-> 70, flicker |-> TRUE, 
      colorPaletteShift |-> 0, interlaceSpeed |-> 80]) @@
  ("composite-color" :>
     [scanOpacity |-> 900, scanlineColor |-> 50, hairlineOpacity |-> 160, 
      fringeOpacity |-> 420, fringeDominant |-> 680, fringeJitterSpeed |-> 3900, 
      fringeJitterAmount |-> 3200, noiseOpacity |-> 380, barrel |-> 3200, scanSize |-> 5500, 
      scanDensity |-> 1700, phosphorSize |-> 1300, phosphorOpacityRed |-> 170, 
      phosphorOpacityGreen |-> 140, phosphorOpacityBlue |-> 160, bloom |-> 120, 
      bloomColor |-> "amber", bloomRadius |-> 1420000, bloomDecay |-> 58000, 
      bloomBlur |-> 9000, bloomBrightness |-> 1050, vignetteOpacity |-> 920, 
      vignetteRadius |-> 87000, vignetteFeather |-> 40000, vignetteColorLight |-> 370, 
      vignetteColorDark |-> 740, reflectionOpacity |-> 38, reflectionSize |-> 1420000, 
      reflectionPositionX |-> 50000, reflectionPositionY |-> 10000, reflection |-> FALSE, 
      scanlineMask |-> "shadow-mask", flickerOpacity |-> 140, flicker |-> TRUE, 
      colorPaletteShift |-> 20000, interlaceSpeed |-> 80]) @@
  ("plasma-display" :>
     [scanOpacity |-> 400, scanlineColor |-> 500, hairlineOpacity |-> 80, 
      fringeOpacity |-> 150, fringeDominant |-> 480, fringeJitterSpeed |-> 3500, 
      fringeJitterAmount |-> 1800, noiseOpacity |-> 120, barrel |-> 500, scanSize |-> 2000, 
      scanDensity |-> 3000, phosphorSize |-> 700, phosphorOpacityRed |-> 160, 
      phosphorOpacityGreen |-> 140, phosphorOpacityBlue |-> 150, bloom |-> 350, 
      bloomColor |-> "white", bloomRadius |-> 1600000, bloomDecay |-> 45000, 
      bloomBlur |-> 16000, bloomBrightness |-> 1600, vignetteOpacity |-> 780, 
      vignetteRadius |-> 88000, vignetteFeather |-> 38000, vignetteColorLight |-> 280, 
      vignetteColorDark |-> 620, reflectionOpacity |-> 50, reflectionSize |-> 1600000, 
      reflectionPositionX |-> 50000, reflectionPositionY |-> 10000, reflection |-> FALSE, 
      scanlineMask |-> "soft", flickerOpacity |-> 60, flicker |-> FALSE, 
      colorPaletteShift |-> -15000, interlaceSpeed |-> 120]) @@
  ("vector-display" :>
     [scanOpacity |-> 300, scanlineColor |-> 600, hairlineOpacity |-> 50, fringeOpacity |-> 50, 
      fringeDominant |-> 500, fringeJitterSpeed |-> 2200, fringeJitterAmount |-> 500, 
      noiseOpacity |-> 80, barrel |-> 1600, scanSize |-> 2000, scanDensity |-> 1000, 
      phosphorSize |-> 500, phosphorOpacityRed |-> 80, phosphorOpacityGreen |-> 180, 
      phosphorOpacityBlue |-> 100, bloom |-> 450, bloomColor |-> "green", 
      bloomRadius |-> 1800000, bloomDecay |-> 35000, bloomBlur |-> 18000, 
      bloomBrightness |-> 1800, vignetteOpacity |-> 880, vignetteRadius |-> 86000, 
      vignetteFeather |-> 45000, vignetteColorLight |-> 380, vignetteColorDark |-> 760, 
      reflectionOpacity |-> 20, reflectionSize |-> 1800000, reflectionPositionX |-> 50000, 
      reflectionPositionY |-> 10000, reflection |-> FALSE, scanlineMask |-> "soft", 
      flickerOpacity |-> 50, flicker |-> FALSE, colorPaletteShift |-> 130000, 
      interlaceSpeed |-> 120])

\* Names found on Object.prototype: presets[name] finds them through the prototype
\* chain of the object literal.
PrototypeNames == {"constructor", "toString"}

\* getPreset with the last entry of the table missing.
getPreset_MissingEntry(name) ==
  IF name \in DOMAIN presets \ {"vector-display"} THEN [t |-> "preset", name |-> name]
  ELSE IF name \in PrototypeNames THEN [t |-> "inherited", name |-> name]
  ELSE [t |-> "undefined", name |-> ""]

\* getPreset(name): presets[name].  The result is a preset, undefined, or an
\* inherited member of Object.prototype (truthy, with no own enumerable key).
getPreset(name) ==
  IF name \in DOMAIN presets THEN [t |-> "preset", name |-> name]
  ELSE IF name \in PrototypeNames THEN [t |-> "inherited", name |-> name]
  ELSE [t |-> "undefined", name |-> ""]

Truthy(p) == p.t # "undefined"

\* The typed JavaScript value of a preset entry.
JsValue(key, raw) ==
  IF key \in BoolKeys THEN JsBool(raw)
  ELSE IF key \in StrKeys THEN JsStr(raw)
  ELSE JsNum(raw)

\* The own enumerable entries of what getPreset returned: a preset's literal, or
\* nothing for an inherited member.
Obj(p) == IF p.t = "preset" THEN presets[p.name] ELSE <<>>
Entries(p) == IF p.t = "preset" THEN PresetKeyOrder ELSE <<>>

\* Object.assign(this.config, preset)
Assign(c, preset) ==
  [k \in DOMAIN c |-> IF k \in DOMAIN preset THEN preset[k] ELSE c[k]]

\* Object.entries(preset).forEach(...): one setAttribute per entry, in key order.
RECURSIVE SetPresetAttrs(_, _, _)
SetPresetAttrs(S, preset, keys) ==
  IF keys = <<>> THEN S
  ELSE LET key == Head(keys)
           S0 == setAttribute(S, kebab[key], String(JsValue(key, preset[key])))
       IN IF S0.threw THEN S0 ELSE SetPresetAttrs(S0, preset, Tail(keys))

\* The widget sync of applyPreset: the slider and the number field of every
\* parameter of its controls table take the preset's value.
SyncWidgets(S, preset) ==
  [S EXCEPT !.dom.widgets =
     [w \in PanelWidgets |->
        LET value == preset[controls[w].prop]
        IN [slider |-> RangeValue(controls[w], value),
            number |-> NumStr(toFixed(value, controls[w].decimals))]]]

\* applyPreset(preset) with the object p that getPreset returned.
applyPreset(S, p) ==
  LET S0 == [S EXCEPT !.config = Assign(@, Obj(p))]
      S1 == SetPresetAttrs(S0, Obj(p), Entries(p))
      S2 == IF S1.dom.portal /\ p.t = "preset" THEN SyncWidgets(S1, Obj(p)) ELSE S1
  IN updateBarrel(updateStyles(S2))

\* applyPreset(name) with a string: Object.assign spreads the characters of the
\* string over the index keys "0", "1", ... of config (they name no parameter and
\* nothing reads them: they are left out of the record), and the first entry makes
\* setAttribute("0", ch).  "0" is no XML Name: engines that validate attribute names
\* by that production raise InvalidCharacterError there, engines with the relaxed
\* validation store the attributes (none is observed) and the method goes on.
applyPresetString(S, name, raises) ==
  IF raises THEN [S EXCEPT !.threw = TRUE]
  ELSE updateBarrel(updateStyles(S))

\* updateConfig(cfg) with the one-entry mapping {key: v}.
updateConfig(S, key, v) == setAttribute(S, kebab[key], String(v))

(***************************************************************************)
(* Lifecycle                                                               *)
(***************************************************************************)
StyleInit ==
  [css |-> [k \in CssKeys |-> 0], cssSet |-> FALSE, mask |-> "none",
   visibility |-> "", zIndex |-> "",
   bloomVisibility |-> "", bloomZIndex |-> "",
   bloomFilter |-> [f |-> "", blur |-> 0, bright |-> 0],
   containerFilter |-> "", reflectionDisplay |-> "", portalDisplay |-> "",
   filterVar |-> <<>>, globalCss |-> "", bodyClass |-> FALSE,
   dispScale |-> 0, turbFreq |-> 0, noiseImage |-> FALSE]

DomInit ==
  [initialized |-> FALSE, container |-> FALSE, svg |-> FALSE, globalStyle |-> FALSE,
   bloomLayer |-> FALSE, portal |-> FALSE, bound |-> 0, noisePool |-> FALSE,
   currentNoiseUrl |-> FALSE, widgets |-> WidgetsInit]

\* render(): shadowRoot.innerHTML is replaced; the new container carries no inline
\* style and the #scanline-mask-style element is gone.
render(S) ==
  [S EXCEPT !.dom.container = TRUE,
            !.style.css = StyleInit.css, !.style.cssSet = FALSE,
            !.style.mask = "none", !.style.containerFilter = "",
            !.style.reflectionDisplay = "",
            !.style.noiseImage = FALSE]

injectSVGFilter(S) ==
  IF S.dom.svg THEN S
  ELSE [S EXCEPT !.dom.svg = TRUE,
                 !.style.dispScale = S.config.barrel,
                 !.style.turbFreq = 1050000]

ensureGlobalFilterStyle(S) ==
  IF S.dom.globalStyle THEN S
  ELSE [S EXCEPT !.dom.globalStyle = TRUE, !.style.globalCss = ""]

createExternalBloomLayer(S) ==
  IF S.dom.bloomLayer THEN S
  ELSE updateExternalBloomLayer([S EXCEPT !.dom.bloomLayer = TRUE])

\* bindControls(): every call adds one more listener to each widget of the portal.
bindControls(S) ==
  IF S.dom.portal THEN [S EXCEPT !.dom.bound = @ + 1] ELSE S

createControlsPortal(S) ==
  IF S.dom.portal THEN S
  ELSE bindControls([S EXCEPT !.dom.portal = TRUE,
                              !.dom.widgets =
                                 [w \in PanelWidgets |->
                                    LET value == S.config[controls[w].prop]
                                    IN [slider |-> RangeValue(controls[w], value),
                                        number |-> NumStr(toFixed(value, controls[w].decimals))]],
                              !.style.portalDisplay =
                                 IF S.config.controls THEN "block" ELSE "none"])

generateNoisePool(S) == [S EXCEPT !.dom.noisePool = TRUE]

initializeEffects(S) == bindControls(generateNoisePool(S))

connectedCallback(S) ==
  IF S.dom.initialized THEN S
  ELSE LET S1 == createControlsPortal(createExternalBloomLayer(
                   ensureGlobalFilterStyle(injectSVGFilter(render(S)))))
           S2 == startAnimations(updateStyles(initializeEffects(S1)))
           S3 == toggleReflection(updateBarrel(updateModeZIndex(S2)))
       IN [S3 EXCEPT !.dom.initialized = TRUE]

disconnectedCallback(S) ==
  [stopAnimations(S) EXCEPT
     !.dom.svg = FALSE, !.style.dispScale = 0, !.style.turbFreq = 0,
     !.style.filterVar = <<>>, !.style.bodyClass = FALSE,
     !.dom.globalStyle = FALSE, !.style.globalCss = "",
     !.dom.bloomLayer = FALSE, !.style.bloomVisibility = "", !.style.bloomZIndex = "",
     !.style.bloomFilter = StyleInit.bloomFilter,
     !.dom.portal = FALSE, !.dom.bound = 0, !.style.portalDisplay = "",
     !.dom.widgets = WidgetsInit,
     !.dom.initialized = FALSE]

(***************************************************************************)
(* Handlers of the controls panel (one run of one listener)                *)
(***************************************************************************)
\* What both listeners of a parameter do with the parsed value.
controlInput(S, cls, value) ==
  LET ctl == controls[cls]
      S0 == [S EXCEPT !.config[ctl.prop] = value]
      S1 == setAttribute(S0, ctl.attr, String(JsNum(value)))
      S2 == IF ctl.attr = "barrel" THEN updateBarrel(S1) ELSE S1
  IN updateStyles(S2)

\* The slider was moved to value; the number field is synced.
sliderInput(S, cls, value) ==
  LET S0 == IF cls \in PanelWidgets
              THEN [S EXCEPT !.dom.widgets[cls] =
                      [slider |-> value,
                       number |-> NumStr(toFixed(value, SliderDecimals(controls[cls].attr)))]]
              ELSE S
  IN controlInput(S0, cls, value)

\* e.target.value of a number input is the text typed, or "" when it is no number.
\* The field shows what was typed; the slider is synced when the text is a number.
numberInput(S, cls, text) ==
  LET value == parseFloat(text)
      S0 == IF cls \in PanelWidgets THEN [S EXCEPT !.dom.widgets[cls].number = text] ELSE S
      S1 == IF cls \in PanelWidgets
              THEN [S0 EXCEPT !.dom.widgets[cls].slider = RangeValue(controls[cls], value.v)]
              ELSE S0
  IN IF value.nan THEN S0 ELSE controlInput(S1, cls, value.v)

scanlineMaskChange(S, v) ==
  updateStyles(setAttribute([S EXCEPT !.config.scanlineMask = v], "scanline-mask", TxtStr(v)))

updateBloomColor(S, v) ==
  updateExternalBloomLayer(
    setAttribute([S EXCEPT !.config.bloomColor = v], "bloom-color", TxtStr(v)))

flickerChange(S, checked) ==
  LET S0 == [S EXCEPT !.config.flicker = checked]
  IN toggleFlicker(IF checked THEN setAttribute(S0, "flicker", TxtStr(""))
                              ELSE removeAttribute(S0, "flicker"))

reflectionChange(S, checked) ==
  LET S0 == [S EXCEPT !.config.reflection = checked]
  IN toggleReflection(IF checked THEN setAttribute(S0, "reflection", TxtStr(""))
                                 ELSE removeAttribute(S0, "reflection"))

\* The option values are "0", "1" and "2".
modeChange(S, text) ==
  LET mode == parseInt(text).v
  IN updateModeZIndex(
       setAttribute([S EXCEPT !.config.mode = mode], "mode", String(JsNum(mode * 1000))))

presetChange(S, name) ==
  LET preset == getPreset(name)
  IN IF Truthy(preset) THEN applyPreset(S, preset) ELSE S

(***************************************************************************)
(* Inputs offered to the operations                                        *)
(***************************************************************************)
\* Attribute names a page script sets: one or more of every kind the callback
\* distinguishes (observed numeric, numeric with a follow-up call, documented but
\* not observed, flag, mode, string).
InputAttrs ==
  {"scan-opacity", "barrel", "color-palette-shift", "bloom", "bloom-blur",
   "fringe-jitter-speed", "scanline-mask", "bloom-color", "flicker", "reflection", "controls", "mode",
   "apply-barrel-to"}

\* Texts offered for a numeric attribute: below, above and inside its documented
\* range, and a text that is no number.
NumericTexts(name) ==
  LET r == Range[name]
  IN {NumStr(r.lo - 1000), NumStr(r.hi + 1000), NumStr((r.lo + r.hi) \div 2), TxtStr("abc")}

AttrInputs(name) ==
  CASE name \in {"flicker", "reflection", "controls"} -> {TxtStr(""), TxtStr("false")}
    [] name = "mode" -> {NumStr(0), NumStr(1000), NumStr(2000), NumStr(5000), NumStr(-1000),
                         TxtStr("abc")}
    [] name = "bloom-color" -> {TxtStr("amber"), TxtStr("")}
    [] name = "apply-barrel-to" -> {TxtStr(".crt-card")}
    [] name = "scanline-mask" -> {TxtStr("sharp")}
    [] name = "scan-opacity" -> NumericTexts(name) \cup {PreStr(500, "abc")}
    [] name = "bloom" -> NumericTexts(name) \cup {NumStr(30)}
    [] name = "bloom-blur" -> {NumStr(0), NumStr(20000)}
    [] OTHER -> NumericTexts(name)

\* Entries offered to updateConfig.
UpdateInputs ==
  {<<"barrel", JsNum(2500)>>, <<"bloom", JsNum(180)>>, <<"scanOpacity", JsNum(900)>>,
   <<"bloomBrightness", JsNum(1500)>>, <<"scanlineMask", JsStr("soft")>>,
   <<"flicker", JsBool(FALSE)>>, <<"reflection", JsBool(TRUE)>>,
   <<"mode", JsNum(0)>>, <<"mode", JsNum(2000)>>}

\* Preset names offered: presets of the table, a name of no preset, the empty
\* name of the "Custom" option, and a name Object.prototype defines.
PresetInputs == {"default", "studio-display-crt", "arcade-crt", "vector-display"}
NameInputs == PresetInputs \cup {"", "not-a-real-preset", "constructor"}

\* Widgets of the panel that are operated.
InputControls == {"ctl-scan", "ctl-barrel", "ctl-bloom", "ctl-fringe-jitter-speed"}
SliderValues(cls) == {controls[cls].min, controls[cls].max}
NumberTexts(cls) == {NumStr(controls[cls].max + 1000), TxtStr("")}

(***************************************************************************)
(* The toast (class JRPGToast)                                             *)
(*                                                                         *)
(* Time is not kept: a pending timeout may fire at any later step.  The    *)
(* auto-hide timeouts are kept by handle, because disconnectedCallback     *)
(* cancels one by handle; the 300 ms callbacks of hide() all do the same   *)
(* and are never cancelled, so they are counted.  render() rewrites the    *)
(* shadow tree and no field of the state below.                            *)
(***************************************************************************)
\* The element after its constructor; display is the computed display, which is
\* the 'display: none' of the :host rule until show() sets the inline style.
\* listeners counts the pairs (click on the shadow root, keydown on the
\* document) that setupEventListeners has added; last is the last step.
ToastInit ==
  [connected |-> FALSE, isVisible |-> FALSE, display |-> "none", visibleClass |-> FALSE,
   timeoutId |-> 0, pendingHide |-> {}, pendingDone |-> 0, listeners |-> 0, last |-> ""]

Toast_show(T) ==
  IF T.isVisible THEN T
  ELSE LET id == NewId(T.pendingHide)
       IN [T EXCEPT !.isVisible = TRUE,
                    !.display = "block",
                    !.visibleClass = TRUE,
                    !.timeoutId = id,
                    !.pendingHide = @ \cup {id}]

Toast_hide(T) ==
  IF ~T.isVisible THEN T
  ELSE [T EXCEPT !.isVisible = FALSE,
                 !.visibleClass = FALSE,
                 !.pendingDone = @ + 1]

\* The callback hide() schedules: display 'none' (and the jrpg-toast-hidden event).
Toast_hideDone(T) == [T EXCEPT !.display = "none", !.pendingDone = @ - 1]

\* clearTimeout(this.timeoutId); the handle is kept and names no timer any more.
Toast_disconnectedCallback(T) ==
  IF T.timeoutId = 0 THEN T
  ELSE [T EXCEPT !.pendingHide = Clear(@, T.timeoutId),
                 !.timeoutId = IF @ > 0 THEN Stale ELSE @]

Toast_setupEventListeners(T) == [T EXCEPT !.listeners = @ + 1]

\* inPortal: the element was inserted as a child of the '.jrpg-portal' element.
\* Otherwise portal.appendChild(this) moves it, and the move runs
\* disconnectedCallback and a nested connectedCallback (now inside the portal)
\* before the outer call goes on to render() and setupEventListeners().
Toast_connectedCallback(T, inPortal) ==
  LET T0 == IF inPortal THEN T
            ELSE Toast_setupEventListeners(Toast_disconnectedCallback(T))
  IN Toast_setupEventListeners(T0)

\* One click or one Escape key: each of the n listeners calls hide().
RECURSIVE Toast_dismiss(_, _)
Toast_dismiss(T, n) == IF n = 0 THEN T ELSE Toast_dismiss(Toast_hide(T), n - 1)

(***************************************************************************)
(* The tooltip (class JrpgTooltip)                                         *)
(*                                                                         *)
(* The delayed callbacks of show() all do the same and are never           *)
(* cancelled, so they are counted; the auto-hide timeouts are kept by      *)
(* handle.  The position of the tooltip is not kept.                       *)
(***************************************************************************)
\* The element after its constructor (which renders the hidden tooltip).
\* listeners counts the listener triples setupEventListeners has added to the
\* document and that are still there; lastReq is the last show or hide request.
TooltipInit ==
  [connected |-> FALSE, isVisible |-> FALSE, display |-> "none", content |-> "",
   hideTimeout |-> 0, pendingHide |-> {}, pendingShow |-> 0, listeners |-> 0,
   lastReq |-> "", last |-> ""]

\* The .tooltip element is written with display block or none, by isVisible.
Tooltip_render(T) == [T EXCEPT !.display = IF T.isVisible THEN "block" ELSE "none"]

\* show(): clears the auto-hide timeout (the handle is kept) and schedules the
\* delayed callback.
Tooltip_show(T) ==
  [T EXCEPT !.pendingHide = IF T.hideTimeout # 0 THEN Clear(@, T.hideTimeout) ELSE @,
            !.hideTimeout = IF @ > 0 THEN Stale ELSE @,
            !.pendingShow = @ + 1]

\* The delayed callback of show().
Tooltip_showDelayed(T) ==
  LET T0 == Tooltip_render([T EXCEPT !.isVisible = TRUE, !.pendingShow = @ - 1])
      id == NewId(T0.pendingHide)
  IN [T0 EXCEPT !.hideTimeout = id, !.pendingHide = @ \cup {id}]

Tooltip_hide(T) ==
  Tooltip_render([T EXCEPT !.isVisible = FALSE,
                           !.pendingHide = IF T.hideTimeout # 0
                                             THEN Clear(@, T.hideTimeout) ELSE @,
                           !.hideTimeout = 0])

\* setAttribute('content', content) runs attributeChangedCallback, which renders.
Tooltip_handleShowTooltip(T, content) ==
  IF content = "" THEN T
  ELSE Tooltip_show(Tooltip_render([T EXCEPT !.content = content]))

Tooltip_handleHideTooltip(T) == Tooltip_hide(T)

Tooltip_setupEventListeners(T) == [T EXCEPT !.listeners = @ + 1]

\* removeEventListener is called with this.handleShowTooltip.bind(this), a new
\* function object that was never added: no listener is removed.
Tooltip_cleanupEventListeners(T) == T

Tooltip_disconnectedCallback(T) ==
  LET T0 == Tooltip_cleanupEventListeners(T)
  IN [T0 EXCEPT !.pendingHide = IF T0.hideTimeout # 0 THEN Clear(@, T0.hideTimeout) ELSE @,
                !.hideTimeout = 0]

\* inPortal as for the toast: otherwise portal.appendChild(this) moves the
\* element, which runs disconnectedCallback and a nested connectedCallback
\* before the outer call reaches setupEventListeners().
Tooltip_connectedCallback(T, inPortal) ==
  LET T0 == IF inPortal THEN T
            ELSE Tooltip_setupEventListeners(Tooltip_disconnectedCallback(T))
  IN Tooltip_setupEventListeners(T0)

\* One jrpg-tooltip-show event on the document: each of the n listeners runs
\* handleShowTooltip.
RECURSIVE Tooltip_showEvent(_, _, _)
Tooltip_showEvent(T, content, n) ==
  IF n = 0 THEN T
  ELSE Tooltip_showEvent(Tooltip_handleShowTooltip(T, content), content, n - 1)

\* One jrpg-tooltip-hide event on the document.
RECURSIVE Tooltip_hideEvent(_, _)
Tooltip_hideEvent(T, n) ==
  IF n = 0 THEN T ELSE Tooltip_hideEvent(Tooltip_handleHideTooltip(T), n - 1)

(***************************************************************************)
(* The state machine                                                       *)
(***************************************************************************)
NoOp == [op |-> "", a |-> "", v |-> Null]
Undefined == [t |-> "undefined", name |-> ""]

Init ==
  /\ config = ConfigInit
  /\ attrs = [a \in DOMAIN map |-> Null]
  /\ dom = DomInit
  /\ style = StyleInit
  /\ timers = [noise |-> 0, flicker |-> 0, pendingNoise |-> {}, pendingFlicker |-> {}]
  /\ trace = <<>>
  /\ threw = FALSE
  /\ ret = Undefined
  /\ lastOp = NoOp
  /\ nops = 0
  /\ toast = ToastInit
  /\ tooltip = TooltipInit

\* The instance at the start of an operation.
Cur ==
  [config |-> config, attrs |-> attrs, dom |-> dom, style |-> style, timers |-> timers,
   trace |-> <<>>, threw |-> FALSE]

Commit(S, op) ==
  /\ Cardinality(S.timers.pendingFlicker) <= MaxPending
  /\ config' = S.config
  /\ attrs' = S.attrs
  /\ dom' = S.dom
  /\ style' = S.style
  /\ timers' = S.timers
  /\ trace' = S.trace
  /\ threw' = S.threw
  /\ lastOp' = op
  /\ UNCHANGED <<toast, tooltip>>

\* One event of a widget: each of the n listeners bound to it runs, in order
\* (bindControls runs twice per portal, so n is 0 or 2).
\* S0 is the state before the event, S1 after one run of the listener, S2 after
\* two.
Listeners(S0, S1, S2, n) == IF n = 0 THEN S0 ELSE IF n = 1 THEN S1 ELSE S2

Mutation == nops < MaxOps /\ nops' = nops + 1

Connect ==
  /\ ~dom.initialized
  /\
       Commit(connectedCallback(Cur), [op |-> "connect", a |-> "", v |-> Null])
  /\ UNCHANGED <<nops, ret>>

Disconnect ==
  /\ dom.initialized
  /\ Commit(disconnectedCallback(Cur), [op |-> "disconnect", a |-> "", v |-> Null])
  /\ UNCHANGED <<nops, ret>>

SetAttribute ==
  /\ Mutation
  /\ \E name \in InputAttrs : \E value \in AttrInputs(name) :
       Commit(setAttribute(Cur, name, value),
              [op |-> "setAttribute", a |-> name, v |-> value])
  /\ UNCHANGED ret

RemoveAttribute ==
  /\ Mutation
  /\ \E name \in InputAttrs :
       /\ attrs[name] # Null
       /\ Commit(removeAttribute(Cur, name),
                 [op |-> "removeAttribute", a |-> name, v |-> Null])
  /\ UNCHANGED ret

UpdateConfig ==
  /\ Mutation
  /\ \E e \in UpdateInputs :
       Commit(updateConfig(Cur, e[1], e[2]),
              [op |-> "updateConfig", a |-> e[1], v |-> String(e[2])])
  /\ UNCHANGED ret

GetPreset ==
  /\ Mutation
  /\ \E name \in NameInputs :
       /\ ret' = getPreset(name)
       /\ lastOp' = [op |-> "getPreset", a |-> name, v |-> Null]
  /\ trace' = <<>>
  /\ threw' = FALSE
  /\ UNCHANGED <<config, attrs, dom, style, timers, toast, tooltip>>

\* applyPreset(getPreset(name)) for a name of the table.
ApplyPreset ==
  /\ Mutation
  /\ \E name \in PresetInputs :
       Commit(applyPreset(Cur, getPreset(name)),
              [op |-> "applyPreset", a |-> name, v |-> Null])
  /\ UNCHANGED ret

\* applyPreset(name), the call the README shows.
ApplyPresetByName ==
  /\ Mutation
  /\ \E name \in PresetInputs : \E raises \in BOOLEAN :
       Commit(applyPresetString(Cur, name, raises),
              [op |-> "applyPresetByName", a |-> name, v |-> Null])
  /\ UNCHANGED ret

\* An event of a widget of the controls panel: the panel exists, and every bound
\* listener runs.
SliderInput ==
  /\ Mutation /\ dom.portal
  /\ \E cls \in InputControls : \E value \in SliderValues(cls) :
       LET H(S) == sliderInput(S, cls, value)
       IN Commit(Listeners(Cur, H(Cur), H(H(Cur)), dom.bound),
                 [op |-> "sliderInput", a |-> cls, v |-> NumStr(value)])
  /\ UNCHANGED ret

NumberInput ==
  /\ Mutation /\ dom.portal
  /\ \E cls \in InputControls : \E text \in NumberTexts(cls) :
       LET H(S) == numberInput(S, cls, text)
       IN Commit(Listeners(Cur, H(Cur), H(H(Cur)), dom.bound),
                 [op |-> "numberInput", a |-> cls, v |-> text])
  /\ UNCHANGED ret

ScanlineMaskSelect ==
  /\ Mutation /\ dom.portal
  /\ \E v \in {"aperture-grille", "soft"} :
       LET H(S) == scanlineMaskChange(S, v)
       IN Commit(Listeners(Cur, H(Cur), H(H(Cur)), dom.bound),
                 [op |-> "scanlineMaskSelect", a |-> v, v |-> Null])
  /\ UNCHANGED ret

\* updateBloomColor listens to 'input' and to 'change': a selection fires both.
BloomColorSelect ==
  /\ Mutation /\ dom.portal
  /\ \E v \in {"green", "white"} :
       LET H(S) == updateBloomColor(S, v)
           onInput == Listeners(Cur, H(Cur), H(H(Cur)), dom.bound)
       IN Commit(Listeners(onInput, H(onInput), H(H(onInput)), dom.bound),
                 [op |-> "bloomColorSelect", a |-> v, v |-> Null])
  /\ UNCHANGED ret

FlickerToggle ==
  /\ Mutation /\ dom.portal
  /\ \E checked \in BOOLEAN :
       LET H(S) == flickerChange(S, checked)
       IN Commit(Listeners(Cur, H(Cur), H(H(Cur)), dom.bound),
                 [op |-> "flickerToggle", a |-> "", v |-> String(JsBool(checked))])
  /\ UNCHANGED ret

ReflectionToggle ==
  /\ Mutation /\ dom.portal
  /\ \E checked \in BOOLEAN :
       LET H(S) == reflectionChange(S, checked)
       IN Commit(Listeners(Cur, H(Cur), H(H(Cur)), dom.bound),
                 [op |-> "reflectionToggle", a |-> "", v |-> String(JsBool(checked))])
  /\ UNCHANGED ret

ModeSelect ==
  /\ Mutation /\ dom.portal
  /\ \E text \in {NumStr(0), NumStr(1000), NumStr(2000)} :
       LET H(S) == modeChange(S, text)
       IN Commit(Listeners(Cur, H(Cur), H(H(Cur)), dom.bound),
                 [op |-> "modeSelect", a |-> "", v |-> text])
  /\ UNCHANGED ret

PresetSelect ==
  /\ Mutation /\ dom.portal
  /\ \E name \in NameInputs :
       LET H(S) == presetChange(S, name)
       IN Commit(Listeners(Cur, H(Cur), H(H(Cur)), dom.bound),
                 [op |-> "presetSelect", a |-> name, v |-> Null])
  /\ UNCHANGED ret

\* A pending flicker timeout fires: () => this.animateFlicker().  The timer loops
\* of the view are no operation of the instance: lastOp and trace keep describing
\* the last operation.  (The random flash of the flicker layer and its 'flicker'
\* event are presentation only and left out.)
FlickerTimer ==
  /\ \E id \in timers.pendingFlicker :
       LET S0 == [Cur EXCEPT !.timers.pendingFlicker = @ \ {id},
                             !.timers.flicker = IF @ = id THEN Stale ELSE @]
       IN timers' = animateFlicker(S0).timers
  /\ UNCHANGED <<config, attrs, dom, style, trace, threw, ret, lastOp, nops, toast, tooltip>>

\* A pending noise timeout fires: () => this.animateNoise().
NoiseTimer ==
  /\ \E id \in timers.pendingNoise :
       LET S0 == [Cur EXCEPT !.timers.pendingNoise = @ \ {id},
                             !.timers.noise = IF @ = id THEN Stale ELSE @]
           S1 == animateNoise(S0)
       IN timers' = S1.timers /\ style' = S1.style
  /\ UNCHANGED <<config, attrs, dom, trace, threw, ret, lastOp, nops, toast, tooltip>>

Next ==
  \/ Connect
  \/ Disconnect
  \/ SetAttribute
  \/ RemoveAttribute
  \/ UpdateConfig
  \/ GetPreset
  \/ ApplyPreset
  \/ ApplyPresetByName
  \/ SliderInput
  \/ NumberInput
  \/ ScanlineMaskSelect
  \/ BloomColorSelect
  \/ FlickerToggle
  \/ ReflectionToggle
  \/ ModeSelect
  \/ PresetSelect
  \/ FlickerTimer
  \/ NoiseTimer

Spec == Init /\ [][Next]_vars

(***************************************************************************)
(* The toast as a state machine                                            *)
(***************************************************************************)
\* The element is inserted into the document.
ToastConnect ==
  /\ ~toast.connected
  /\ \E inPortal \in BOOLEAN :
       LET T == Toast_connectedCallback(toast, inPortal)
       IN /\ T.listeners <= MaxListeners
          /\ toast' = [T EXCEPT !.connected = TRUE, !.last = "connect"]
  /\ UNCHANGED <<overlayVars, tooltip>>

\* The element is removed from the document.
ToastDisconnect ==
  /\ toast.connected
  /\ toast' = [Toast_disconnectedCallback(toast) EXCEPT !.connected = FALSE,
                                                        !.last = "disconnect"]
  /\ UNCHANGED <<overlayVars, tooltip>>

\* The connected element is moved to another place of the document:
\* disconnectedCallback, then connectedCallback.
ToastMove ==
  /\ toast.connected
  /\ \E inPortal \in BOOLEAN :
       LET T == Toast_connectedCallback(Toast_disconnectedCallback(toast), inPortal)
       IN /\ T.listeners <= MaxListeners
          /\ toast' = [T EXCEPT !.last = "move"]
  /\ UNCHANGED <<overlayVars, tooltip>>

\* toast.show()
ToastShow ==
  /\ LET T == Toast_show(toast)
     IN /\ Cardinality(T.pendingHide) <= MaxTimers
        /\ toast' = [T EXCEPT !.last = "show"]
  /\ UNCHANGED <<overlayVars, tooltip>>

\* toast.hide()
ToastHide ==
  /\ LET T == Toast_hide(toast)
     IN /\ T.pendingDone <= MaxTimers
        /\ toast' = [T EXCEPT !.last = "hide"]
  /\ UNCHANGED <<overlayVars, tooltip>>

\* The user clicks the displayed toast.
ToastClick ==
  /\ toast.connected /\ toast.display = "block"
  /\ LET T == Toast_dismiss(toast, toast.listeners)
     IN /\ T.pendingDone <= MaxTimers
        /\ toast' = [T EXCEPT !.last = "click"]
  /\ UNCHANGED <<overlayVars, tooltip>>

\* The user presses Escape: the keydown listeners are on the document and stay
\* there when the toast is removed.
ToastEscape ==
  /\ toast.listeners > 0
  /\ LET T == IF toast.isVisible THEN Toast_dismiss(toast, toast.listeners) ELSE toast
     IN /\ T.pendingDone <= MaxTimers
        /\ toast' = [T EXCEPT !.last = "escape"]
  /\ UNCHANGED <<overlayVars, tooltip>>

\* A pending auto-hide timeout fires: () => this.hide().
ToastAutoHide ==
  /\ \E id \in toast.pendingHide :
       LET T0 == [toast EXCEPT !.pendingHide = @ \ {id},
                               !.timeoutId = IF @ = id THEN Stale ELSE @]
           T == Toast_hide(T0)
       IN /\ T.pendingDone <= MaxTimers
          /\ toast' = [T EXCEPT !.last = "autoHide"]
  /\ UNCHANGED <<overlayVars, tooltip>>

\* A pending 300 ms callback of hide() fires.
ToastHideDone ==
  /\ toast.pendingDone > 0
  /\ toast' = [Toast_hideDone(toast) EXCEPT !.last = "hideDone"]
  /\ UNCHANGED <<overlayVars, tooltip>>

ToastNext ==
  \/ ToastConnect
  \/ ToastDisconnect
  \/ ToastMove
  \/ ToastShow
  \/ ToastHide
  \/ ToastClick
  \/ ToastEscape
  \/ ToastAutoHide
  \/ ToastHideDone

ToastSpec == Init /\ [][ToastNext]_vars

\* The browser runs every timeout that stays pending.
ToastFairSpec == ToastSpec /\ WF_vars(ToastAutoHide) /\ WF_vars(ToastHideDone)

(***************************************************************************)
(* The tooltip as a state machine                                          *)
(***************************************************************************)
TooltipContents == {"", "Save your game"}

TooltipConnect ==
  /\ ~tooltip.connected
  /\ \E inPortal \in BOOLEAN :
       LET T == Tooltip_connectedCallback(tooltip, inPortal)
       IN /\ T.listeners <= MaxListeners
          /\ tooltip' = [T EXCEPT !.connected = TRUE, !.last = "connect"]
  /\ UNCHANGED <<overlayVars, toast>>

TooltipDisconnect ==
  /\ tooltip.connected
  /\ tooltip' = [Tooltip_disconnectedCallback(tooltip) EXCEPT !.connected = FALSE,
                                                              !.last = "disconnect"]
  /\ UNCHANGED <<overlayVars, toast>>

\* tooltip.show()
TooltipShow ==
  /\ LET T == Tooltip_show(tooltip)
     IN /\ T.pendingShow <= MaxTimers
        /\ tooltip' = [T EXCEPT !.lastReq = "show", !.last = "show"]
  /\ UNCHANGED <<overlayVars, toast>>

\* tooltip.hide()
TooltipHide ==
  /\ tooltip' = [Tooltip_hide(tooltip) EXCEPT !.lastReq = "hide", !.last = "hide"]
  /\ UNCHANGED <<overlayVars, toast>>

\* JrpgTooltip.show(content, target): a jrpg-tooltip-show event on the document.
TooltipShowEvent ==
  /\ \E content \in TooltipContents :
       LET T == Tooltip_showEvent(tooltip, content, tooltip.listeners)
       IN /\ T.pendingShow <= MaxTimers
          /\ tooltip' = [T EXCEPT !.lastReq = IF T = tooltip THEN @ ELSE "show",
                                  !.last = "showEvent"]
  /\ UNCHANGED <<overlayVars, toast>>

\* JrpgTooltip.hide(): a jrpg-tooltip-hide event on the document.
TooltipHideEvent ==
  /\ tooltip' = [Tooltip_hideEvent(tooltip, tooltip.listeners)
                   EXCEPT !.lastReq = IF tooltip.listeners > 0 THEN "hide" ELSE @,
                          !.last = "hideEvent"]
  /\ UNCHANGED <<overlayVars, toast>>

\* A pending delayed callback of show() fires.
TooltipShowDelayed ==
  /\ tooltip.pendingShow > 0
  /\ LET T == Tooltip_showDelayed(tooltip)
     IN /\ Cardinality(T.pendingHide) <= MaxTimers
        /\ tooltip' = [T EXCEPT !.last = "showDelayed"]
  /\ UNCHANGED <<overlayVars, toast>>

\* A pending auto-hide timeout fires: () => this.hide().
TooltipAutoHide ==
  /\ \E id \in tooltip.pendingHide :
       LET T0 == [tooltip EXCEPT !.pendingHide = @ \ {id},
                                 !.hideTimeout = IF @ = id THEN Stale ELSE @]
       IN tooltip' = [Tooltip_hide(T0) EXCEPT !.last = "autoHide"]
  /\ UNCHANGED <<overlayVars, toast>>

TooltipNext ==
  \/ TooltipConnect
  \/ TooltipDisconnect
  \/ TooltipShow
  \/ TooltipHide
  \/ TooltipShowEvent
  \/ TooltipHideEvent
  \/ TooltipShowDelayed
  \/ TooltipAutoHide

TooltipSpec == Init /\ [][TooltipNext]_vars

(***************************************************************************)
(* Properties                                                              *)
(***************************************************************************)
\* The step is one run of an operation (timer steps leave nops alone).
OpStep == nops' = nops + 1

AttrOps == {"setAttribute", "removeAttribute", "updateConfig"}

\* The operations that set one parameter to a given value.
SetOps == AttrOps \cup {"sliderInput", "numberInput"}

\* The attribute such an operation names (updateConfig is given the key, a widget
\* of the panel its class).
OpAttr(op) ==
  CASE op.op = "updateConfig" -> kebab[op.a]
    [] op.op \in {"sliderInput", "numberInput"} -> controls[op.a].attr
    [] OTHER -> op.a

Clamp(n, r) == Max(r.lo, Min(r.hi, n))

MaskNames == {"shadow-mask", "aperture-grille", "slot-mask", "sharp", "soft"}

\* C1: setting a numeric parameter with a documented range [lo, hi], by its
\* attribute, by updateConfig or by a widget of the panel, stores the value clamped
\* into the range: lo for a value below, hi for a value above, the value itself
\* inside.
C1_SetClampsToRange ==
  (lastOp.op \in SetOps /\ OpAttr(lastOp) \in DOMAIN Range /\ lastOp.v.k = "num")
    => config[map[OpAttr(lastOp)]] = Clamp(lastOp.v.n, Range[OpAttr(lastOp)])

\* The layering state of mode m: hidden for 0, visible behind the content for 1,
\* visible on top for 2.
Layering(m) ==
  CASE m = 0 -> style.visibility = "hidden"
    [] m = 1 -> style.visibility = "visible" /\ style.zIndex = "-1"
    [] m = 2 -> style.visibility = "visible" /\ style.zIndex = "9999"
    [] OTHER -> FALSE

\* C2: after the mode is set to a text that parses as m in {0, 1, 2}, by the
\* attribute, by updateConfig or by the mode selector of the panel, config.mode is
\* m and a rendered overlay is in the layering state of m.
C2_ModeSelectsLayering ==
  LET m == parseInt(lastOp.v)
  IN ( /\ \/ lastOp.op \in AttrOps /\ OpAttr(lastOp) = "mode"
          \/ lastOp.op = "modeSelect"
       /\ ~m.nan /\ m.v \in {0, 1, 2} )
     => (config.mode = m.v /\ (dom.container => Layering(m.v)))

PresetOps == {"applyPreset", "presetSelect"}

\* C3: applying the preset that was applied by the operation before leaves config
\* as that application left it.
C3_PresetIdempotent ==
  [][ ( /\ OpStep
        /\ lastOp.op \in PresetOps /\ lastOp'.op \in PresetOps
        /\ lastOp.a \in DOMAIN presets /\ lastOp'.a = lastOp.a )
      => config' = config ]_vars

\* C4: after preset A and then preset B are applied, every key of B holds B's
\* literal value in config.
C4_PresetOverwrites ==
  [][ ( /\ OpStep
        /\ lastOp.op \in PresetOps /\ lastOp'.op \in PresetOps
        /\ lastOp.a \in DOMAIN presets /\ lastOp'.a \in DOMAIN presets )
      => \A k \in DOMAIN presets[lastOp'.a] : config'[k] = presets[lastOp'.a][k] ]_vars

\* C5: applyPreset called with the name of a preset raises no error and leaves
\* config equal to that preset on every key of the preset.
C5_ApplyPresetByName ==
  lastOp.op = "applyPresetByName"
    => ( /\ ~threw
         /\ \A k \in DOMAIN presets[lastOp.a] : config[k] = presets[lastOp.a][k] )

\* C6: every documented parameter can be set through its attribute and through
\* updateConfig: after a valid value v is given for it, config holds v.
C6_DocumentedParametersSettable ==
  /\ ( /\ lastOp.op \in AttrOps /\ OpAttr(lastOp) \in DOMAIN Range
       /\ lastOp.v.k = "num"
       /\ lastOp.v.n >= Range[OpAttr(lastOp)].lo /\ lastOp.v.n <= Range[OpAttr(lastOp)].hi )
     => config[map[OpAttr(lastOp)]] = lastOp.v.n
  /\ ( /\ lastOp.op \in AttrOps /\ OpAttr(lastOp) = "scanline-mask"
       /\ lastOp.v.k = "txt" /\ lastOp.v.s \in MaskNames )
     => config.scanlineMask = lastOp.v.s

\* The attributes attributeChangedCallback parses as numbers and the README or
\* the panel presents as numeric parameters.
NumericAttrs == DOMAIN Range \cup {"noise-opacity"}

\* C7: when a numeric attribute is changed to a text that does not parse as a
\* number, or is removed, config is left as it was, on every key, and no error is
\* raised.
C7_MalformedNumericAbsorbed ==
  [][ ( /\ OpStep
        /\ lastOp'.op \in {"setAttribute", "removeAttribute"}
        /\ lastOp'.a \in NumericAttrs
        /\ parseFloat(lastOp'.v).nan )
      => (config' = config /\ ~threw') ]_vars

\* C7 witness: a rendered overlay whose scan-opacity, set to a number before, was
\* just given the text "abc".
C7_Witness ==
  /\ lastOp = [op |-> "setAttribute", a |-> "scan-opacity", v |-> TxtStr("abc")]
  /\ dom.container
  /\ config.scanOpacity # ConfigInit.scanOpacity

\* C8: resolving a name that is no preset returns no preset, and selecting such a
\* name, or the empty name, changes neither config nor the derived state and
\* raises no error.
C8_UnknownPresetNoOp ==
  [][ /\ (OpStep /\ lastOp'.op = "getPreset" /\ lastOp'.a \notin DOMAIN presets)
         => ret'.t = "undefined"
      /\ (OpStep /\ lastOp'.op = "presetSelect" /\ lastOp'.a \notin DOMAIN presets)
         => (config' = config /\ style' = style /\ ~threw') ]_vars

Followed(i, name) == \E j \in DOMAIN trace : j > i /\ trace[j].e = name

\* C9: every run of updateStyles is followed by a 'config-change' event.
C9_ConfigChangeAfterProjection ==
  \A i \in DOMAIN trace : trace[i].e = "updateStyles" => Followed(i, "config-change")

\* C10 as stated: every run of updateStyles is followed by a 'barrel-change' event
\* carrying the current barrel amount and the filter id of the instance.
C10_BarrelChangeAfterProjection ==
  \A i \in DOMAIN trace :
    trace[i].e = "updateStyles"
      => \E j \in DOMAIN trace :
           j > i /\ trace[j] = [e |-> "barrel-change", v |-> config.barrel, fid |-> FilterId]

\* The operations that run updateBarrel: connecting, applying a preset, an input
\* of the barrel slider or number field, and a change of the barrel attribute of a
\* rendered overlay (the projection in the trace shows the callback went through).
RunsUpdateBarrel ==
  \/ lastOp.op = "connect"
  \/ lastOp.op = "applyPreset"
  \/ lastOp.op = "presetSelect" /\ lastOp.a \in DOMAIN presets
  \/ lastOp.op = "sliderInput" /\ lastOp.a = "ctl-barrel"
  \/ lastOp.op = "numberInput" /\ lastOp.a = "ctl-barrel" /\ ~parseFloat(lastOp.v).nan
  \/ /\ lastOp.op \in AttrOps /\ OpAttr(lastOp) = "barrel"
     /\ \E i \in DOMAIN trace : trace[i].e = "updateStyles"

\* C10 amended: 'barrel-change' is dispatched by updateBarrel, not by the
\* projection: an operation that runs updateBarrel dispatches it, and every
\* 'barrel-change' of an operation carries the barrel amount config holds after
\* the operation and the filter id of the instance.
C10_BarrelChangeOnUpdateBarrel ==
  /\ RunsUpdateBarrel => \E j \in DOMAIN trace : trace[j].e = "barrel-change"
  /\ \A j \in DOMAIN trace :
       trace[j].e = "barrel-change" => (trace[j].v = config.barrel /\ trace[j].fid = FilterId)

\* C10 witness: the barrel attribute of a rendered overlay was changed to a new
\* amount and the event was dispatched.
C10_Witness ==
  /\ lastOp.op = "setAttribute" /\ lastOp.a = "barrel"
  /\ dom.container
  /\ config.barrel # ConfigInit.barrel
  /\ \E j \in DOMAIN trace : trace[j].e = "barrel-change"

\* C11: after an attribute change, a mode selection in the panel, a preset
\* application or updateConfig, if config.mode is 0 then the page-filtered body
\* class of the instance is absent and no global filter rule is installed.
C11_DisabledSuppressesGlobalFilters ==
  (lastOp.op \in AttrOps \cup PresetOps \cup {"modeSelect"} /\ config.mode = 0)
    => (~style.bodyClass /\ style.globalCss = "")

\* C12: when the bloom strength b is in [0.05, 0.4] and bloomBlur in [2, 40], the
\* bloom layer's blur is min(bloomBlur * max(0.15, b), 2.5) and its brightness is
\* 1 + b * bloomBrightness * 0.4 (blur in millionths, brightness in
\* ten-millionths).
C12_BloomBlurCappedAt2_5 ==
  ( /\ dom.bloomLayer
    /\ lastOp.op \in AttrOps \cup {"sliderInput", "numberInput", "applyPreset", "connect"}
    /\ config.bloom >= 50 /\ config.bloom <= 400
    /\ config.bloomBlur >= 2000 /\ config.bloomBlur <= 40000 )
  => ( /\ style.bloomFilter.f = "blur"
       /\ style.bloomFilter.blur = Min(config.bloomBlur * Max(150, config.bloom), 2500000)
       /\ style.bloomFilter.bright = 10000000 + config.bloom * config.bloomBrightness * 4 )

\* The option values of the preset dropdown of the panel ("" is "Custom").
PresetOptions ==
  {"", "default", "trinitron-fd", "professional-monitor", "monitor-1084s",
   "studio-display-crt", "arcade-crt", "broadcast-monitor", "rgb-professional",
   "retro-studio", "amber-phosphor", "green-phosphor", "blue-phosphor",
   "phosphor-white", "vt220-terminal", "lcd-handheld", "classic-rgb",
   "precision-flatcrt", "composite-color", "plasma-display", "vector-display"}

\* The preset names the README lists.
ReadmePresets ==
  {"default", "trinitron-fd", "professional-monitor", "monitor-1084s",
   "studio-display-crt", "arcade-crt", "amber-phosphor", "green-phosphor",
   "blue-phosphor", "phosphor-white", "broadcast-monitor", "rgb-professional",
   "retro-studio", "vt220-terminal", "lcd-handheld", "classic-rgb",
   "precision-flatcrt", "composite-color", "plasma-display", "vector-display"}

\* The names offered as presets: the "Custom" option names none.
OfferedPresets == (PresetOptions \ {""}) \cup ReadmePresets

C14_WidgetsShowConfig ==
  ( /\ dom.portal
    /\ lastOp.op \in AttrOps \cup PresetOps \cup {"sliderInput", "numberInput"} )
  => \A w \in PanelWidgets :
       /\ dom.widgets[w].slider = config[controls[w].prop]
       /\ dom.widgets[w].number = NumStr(config[controls[w].prop])

\* The derived style state of a style record: the CSS custom properties, the
\* scanline-mask fragment, the filter chain, the page-filtered body class, the
\* visibility and the z-index.
Derived(st) ==
  [css |-> st.css, mask |-> st.mask, filterVar |-> st.filterVar,
   bodyClass |-> st.bodyClass, visibility |-> st.visibility, zIndex |-> st.zIndex]

\* C15: the derived style state after a completed operation on a connected
\* overlay is the projection of the current config: projecting the unchanged
\* config once more gives the identical derived state (so two runs that end with
\* equal config end with equal derived state).
C15_DerivedStyleIsProjectionOfConfig ==
  (dom.initialized /\ lastOp.op \notin {"", "disconnect"})
    => Derived(updateStyles(Cur).style) = Derived(style)

\* C16: within one operation config is complete before a projection runs: during
\* a preset application every run of updateStyles sees a config in which every
\* key of the preset holds the preset's value, and during a change of one numeric
\* attribute updateStyles sees the new value of that parameter.
C16_ConfigCompleteBeforeProjection ==
  /\ (lastOp.op \in PresetOps /\ lastOp.a \in DOMAIN presets)
       => \A i \in DOMAIN trace :
            trace[i].e = "updateStyles"
              => \A k \in DOMAIN presets[lastOp.a] : trace[i].seen[k] = presets[lastOp.a][k]
  /\ ( /\ lastOp.op = "setAttribute" /\ lastOp.a \in NumericAttrs
       /\ lastOp.a \in observedAttributes /\ lastOp.v.k = "num" )
       => \A i \in DOMAIN trace :
            trace[i].e = "updateStyles" => trace[i].seen[map[lastOp.a]] = lastOp.v.n

\* C17: every value of an applied preset lies inside the declared range of its
\* parameter, the range of the README and the bounds of its slider, and so does
\* config after the preset was applied.
C17_PresetsWithinRanges ==
  (lastOp.op \in PresetOps /\ lastOp.a \in DOMAIN presets)
    => LET preset == presets[lastOp.a]
       IN /\ \A a \in DOMAIN Range :
               map[a] \in DOMAIN preset
                 => /\ preset[map[a]] >= Range[a].lo /\ preset[map[a]] <= Range[a].hi
                    /\ config[map[a]] >= Range[a].lo /\ config[map[a]] <= Range[a].hi
          /\ \A w \in DOMAIN controls :
               controls[w].prop \in DOMAIN preset
                 => /\ preset[controls[w].prop] >= controls[w].min
                    /\ preset[controls[w].prop] <= controls[w].max

\* The last operation ran applyGlobalFilters on the config it ended with: it went
\* through updateStyles, and it is not the mode selector, whose listener writes
\* config.mode after the projection.
ProjectedCurrentConfig ==
  /\ lastOp.op \notin {"", "disconnect", "modeSelect"}
  /\ \E i \in DOMAIN trace : trace[i].e = "updateStyles"

\* C18: after applyGlobalFilters ran, the page-filtered body class is present
\* exactly when (barrel > 0 or colorPaletteShift # 0) and mode # 0, for every
\* stored mode, the integers outside {0, 1, 2} included.
C18_BodyClassIffFilterAndNotDisabled ==
  ProjectedCurrentConfig
    => (style.bodyClass <=>
          ((config.barrel > 0 \/ config.colorPaletteShift # 0) /\ config.mode # 0))

\* C19: the filter chain applyGlobalFilters writes is the barrel reference
\* followed by the hue-rotate filter when both are active, the one active filter
\* alone when one is, and "none" when neither is (the chain is kept as the
\* sequence of its space-separated filters); in no state does the barrel
\* reference come after the hue-rotate filter.
C19_FilterChainOrder ==
  LET barrelActive == config.barrel > 0 /\ config.mode > 0
      hueActive == config.colorPaletteShift # 0
      url == [f |-> "url", v |-> 0]
      hue == [f |-> "hue-rotate", v |-> config.colorPaletteShift]
  IN /\ ProjectedCurrentConfig
          => style.filterVar =
               IF barrelActive /\ hueActive THEN <<url, hue>>
               ELSE IF barrelActive THEN <<url>>
               ELSE IF hueActive THEN <<hue>>
               ELSE <<[f |-> "none", v |-> 0]>>
     /\ \A i, j \in DOMAIN style.filterVar :
          (style.filterVar[i].f = "hue-rotate" /\ style.filterVar[j].f = "url") => j < i

\* C19 witness: the hue shift of a connected overlay was set while the barrel
\* filter is active, and the chain has both filters.
C19_Witness ==
  /\ ProjectedCurrentConfig
  /\ lastOp.op = "setAttribute" /\ lastOp.a = "color-palette-shift"
  /\ config.barrel > 0 /\ config.mode > 0 /\ config.colorPaletteShift # 0
  /\ Len(style.filterVar) = 2

C21_OneMaskFragment ==
  /\ (dom.container /\ style.cssSet)
       => /\ style.mask \in MaskNames
          /\ style.mask = IF config.scanlineMask \in MaskNames
                            THEN config.scanlineMask ELSE "shadow-mask"
  /\ \A m \in MaskNames \cup {"", "crt", "Soft"} :
       MaskVariant(m) = IF m \in MaskNames THEN m ELSE "shadow-mask"

\* C21 witness: the mask selector switched a connected overlay from the default
\* shadow-mask to soft and the installed fragment is the soft one.
C21_Witness ==
  /\ dom.initialized
  /\ lastOp.op = "scanlineMaskSelect"
  /\ config.scanlineMask = "soft"
  /\ style.mask = "soft"

\* C22: after a projection of a config whose mode is an integer other than 0 and
\* 2, everything that depends on the mode is what the same config with mode 1
\* gives: the overlay is visible at z-index -1, the barrel rule targets what mode
\* 1 targets, and the filter chain and the page-filtered class are those of
\* mode 1.
C22_OtherModesBehaveAsMode1 ==
  (ProjectedCurrentConfig /\ config.mode \notin {0, 2})
    => LET c1 == [config EXCEPT !.mode = 1]
       IN /\ style.visibility = "visible"
          /\ style.zIndex = "-1"
          /\ dom.globalStyle => style.globalCss = FilterTarget(c1)
          /\ style.filterVar = FilterChain(c1, BarrelValue(c1, ""))
          /\ style.bodyClass = PageFiltered(c1)

\* The overlay was connected and disconnectedCallback has returned since: the
\* shadow tree of the last render is still there, _initialized is false.
Disconnected == dom.container /\ ~dom.initialized

\* C23: from the return of disconnectedCallback to the next connectedCallback no
\* noise timer and no flicker timer is pending, whatever attribute changes and
\* preset applications the disconnected overlay receives.
C23_NoTimerWhileDisconnected ==
  Disconnected => (timers.pendingNoise = {} /\ timers.pendingFlicker = {})

\* C24: in every reachable state at most one flicker timer of the overlay is
\* pending.
C24_OneFlickerTimer == Cardinality(timers.pendingFlicker) <= 1

\* C25: from the return of disconnectedCallback to the next connectedCallback the
\* page-filtered body class and the filter-chain CSS variable of the instance are
\* absent, whatever attribute changes and preset applications happen in between.
C25_NoGlobalEffectsWhileDisconnected ==
  Disconnected => (~style.bodyClass /\ style.filterVar = <<>>)

\* C26: a visible toast stays visible until the auto-hide timeout of the show()
\* that made it visible fires, or the user dismisses it (click, Escape) or
\* hide() is called: no timeout of an earlier show() hides it, and its display
\* is not taken away while it is visible.
C26_ToastKeepsOwnDuration ==
  [][ /\ (toast.isVisible /\ ~toast'.isVisible)
        => \/ toast'.last \in {"click", "escape", "hide"}
           \/ /\ toast'.last = "autoHide"
              /\ toast.pendingHide \ toast'.pendingHide = {toast.timeoutId}
      /\ (toast.display = "block" /\ toast'.display = "none") => ~toast'.isVisible
    ]_vars

\* C27: under the fairness of the timers, every toast shown by show() is hidden
\* again with no user action needed, also when the element is disconnected,
\* reconnected or moved while it is visible.
C27_ToastEventuallyHidden == toast.isVisible ~> ~toast.isVisible

C29_TooltipHiddenUntilNextShow ==
  tooltip.lastReq = "hide" => (~tooltip.isVisible /\ tooltip.display = "none")

\* C30: the tooltip has one set of document listeners while it is connected and
\* none while it is not; a jrpg-tooltip-show event leaves a disconnected tooltip
\* as it is, and on a connected tooltip an event with content starts exactly one
\* show.
C30_TooltipListenersOnceWhileConnected ==
  [][ /\ tooltip'.listeners = IF tooltip'.connected THEN 1 ELSE 0
      /\ (tooltip'.last = "showEvent" /\ ~tooltip.connected)
           => tooltip' = [tooltip EXCEPT !.last = "showEvent"]
      /\ (tooltip'.last = "showEvent" /\ tooltip.connected /\ tooltip'.content # tooltip.content)
           => tooltip'.pendingShow = tooltip.pendingShow + 1
    ]_vars

====
